---------------------------- MODULE Spec2Model ----------------------------
(***************************************************************************)
(* A model of the whoami fetch-and-normalize core: the link router, the    *)
(* scrapers' control flow against their upstream requests, the WBI signing *)
(* function and the orchestrator `_run`; of the interactive link collector *)
(* of whoami's command line; and of whoareu's synthesize and write_files.  *)
(*                                                                         *)
(* Strings are modelled as sequences of atoms.  Every delimiter the code   *)
(* looks at (":", "/", "?", "#", "[", ".", "@", "=") is an atom of its     *)
(* own; a word ("github", "octocat") or a number ("1") is one atom that    *)
(* stands for its characters.  "https://github.com/octocat" is             *)
(* <<"https", ":", "/", "/", "github", ".", "com", "/", "octocat">>.       *)
(***************************************************************************)
EXTENDS Naturals, Integers, Sequences, FiniteSets, TLC

VARIABLES
    \* ---- router (whoami/router.py, whoami/scrapers/__init__.py) ----
    missing,     \* the third-party package that is not installed, or "none"
    modIdx,      \* get_all_scrapers: number of _SCRAPER_MODULES entries processed
    scrapers,    \* LinkRouter._scrapers, in registration order
    url,         \* the URL given to LinkRouter.resolve
    resolved     \* what resolve(url) gave: a scraper, "None", "ValueError"; "-" before the call

routerVars == <<missing, modIdx, scrapers, url, resolved>>

VARIABLES
    \* ---- one scraper invocation: scraper.scrape(surl, config) ----
    scraper,     \* the scraper class whose scrape is running
    surl,        \* the url argument
    spc,         \* where the coroutine stands; "done" once it has returned or raised
    reqs,        \* the upstream requests completed so far, in order
    loc,         \* the local variables of scrape
    srec         \* what scrape gave: a ScrapedData record or an exception

scrapeVars == <<scraper, surl, spc, reqs, loc, srec>>

VARIABLES
    \* ---- the orchestrator: _run(links, config) ----
    links,       \* the links argument
    rpc,         \* where _run stands: "resolve", "collect", "done", or "raised"
    tasks,       \* the list tasks: per link the scraper, the url and the scrape's state
    queue,       \* the tasks that have completed, in completion order
    taken,       \* how many completed tasks the as_completed loop has awaited
    results      \* the list results

runVars == <<links, rpc, tasks, queue, taken, results>>

VARIABLES
    \* ---- two calls of _sign_wbi(params, img_key, sub_key) ----
    calls,       \* per call: the caller's params dict and what the call gave
    img_key,     \* the key pair, the same for both calls
    sub_key,
    wts          \* round(time.time()), the same for both calls

signVars == <<calls, img_key, sub_key, wts>>

VARIABLES
    \* ---- strip_sensitive applied to a text, then to its own result ----
    ptext,       \* the text given to the first call
    ppc,         \* how many of the two calls have returned: "idle", "start", "once", "twice"
    once,        \* strip_sensitive(ptext)
    twice        \* strip_sensitive(strip_sensitive(ptext))

privacyVars == <<ptext, ppc, once, twice>>

VARIABLES
    \* ---- whoareu: synthesize(spec, llm=llm) ----
    ypc,         \* where synthesize stands: "idle", "identity", "soul", "agents", "return", "done"
    llm_calls,   \* the litellm.acompletion requests made so far, in order
    identity_md, \* the local variables of synthesize
    soul_md,
    agents_md,
    generated    \* what synthesize gave: a GeneratedFiles object or an exception

synthVars == <<ypc, llm_calls, identity_md, soul_md, agents_md, generated>>

VARIABLES
    \* ---- whoareu: write_files(files, output_dir) ----
    files,       \* the GeneratedFiles argument: its fields and their texts
    output_dir,  \* the output_dir argument, as path components
    disk,        \* the file system: per existing path "dir" or a file's text
    wpc,         \* where write_files stands: "idle", "mkdir", "loop", "done"
    written,     \* the local list written
    wrote        \* what write_files gave: a list of paths or an exception

outputVars == <<files, output_dir, disk, wpc, written, wrote>>

VARIABLES
    \* ---- the interactive link collector and main's use of it ----
    collected,   \* the local list links of _interactive_collect
    cpc,         \* "idle", "prompt", "returned", "aborted", "scraping" or "bye"
    entered,     \* the last line read by click.prompt, "<EOF>" for end of input
    previous,    \* the list links as it was before the last line was handled
    echoed       \* what handling the last line printed

collectVars == <<collected, cpc, entered, previous, echoed>>

vars == <<routerVars, scrapeVars, runVars, signVars, privacyVars,
          synthVars, outputVars, collectVars>>

\* the parts added to the fetch-and-normalize core
outsideCore == <<synthVars, outputVars, collectVars>>

\* what the actions of one part leave alone
outsideRouter == <<scrapeVars, runVars, signVars, privacyVars, outsideCore>>

outsideScrape == <<routerVars, runVars, signVars, privacyVars, outsideCore>>

outsideRun == <<scrapeVars, signVars, privacyVars, outsideCore>>

outsideSign == <<routerVars, scrapeVars, runVars, privacyVars, outsideCore>>

outsidePrivacy == <<routerVars, scrapeVars, runVars, signVars, outsideCore>>

-----------------------------------------------------------------------------
(* Atoms *)

Words == {"https", "http", "www", "com", "to", "cn", "hk", "github", "gitlab",
          "space", "bilibili", "video", "steamcommunity", "store",
          "steampowered", "stackoverflow", "dev", "medium", "reddit", "zhihu",
          "douban", "people", "weibo", "scholar", "google", "citations",
          "xiaohongshu", "xhslink", "user", "users", "u", "id", "profile",
          "example", "octocat", "GitHub"}

Digits == {"1"}

\* string.ascii_letters + digits + "+-." : the characters a scheme may hold
IsSchemeAtom(a) == a \in Words \cup Digits \cup {"."}

-----------------------------------------------------------------------------
(* Sequence helpers standing for Python's str operations *)

\* s.find(a) + 1: the first position of atom a in s, 0 when absent
RECURSIVE FindFrom(_, _, _)
FindFrom(s, a, i) ==
    IF i > Len(s) THEN 0
    ELSE IF s[i] = a THEN i
    ELSE FindFrom(s, a, i + 1)

Find(s, a) == FindFrom(s, a, 1)

\* sub in s
HasSub(s, sub) ==
    \E i \in 1..(Len(s) - Len(sub) + 1) : SubSeq(s, i, i + Len(sub) - 1) = sub

From(s, i) == SubSeq(s, i, Len(s))

Upto(s, i) == SubSeq(s, 1, i)

\* the least positive member of a set of positions, 0 when there is none
MinPos(S) ==
    LET P == {p \in S : p > 0}
    IN IF P = {} THEN 0 ELSE CHOOSE p \in P : \A q \in P : p <= q

\* s.split(d): the pieces of s between the occurrences of atom d
RECURSIVE SplitOn(_, _)
SplitOn(s, d) ==
    LET i == Find(s, d)
    IN IF i = 0 THEN <<s>>
       ELSE <<Upto(s, i - 1)>> \o SplitOn(From(s, i + 1), d)

\* [p for p in path.strip("/").split("/") if p]
PathParts(path) == SelectSeq(SplitOn(path, "/"), LAMBDA p : p # <<>>)

\* s.rstrip("/")
RECURSIVE RStripSlash(_)
RStripSlash(s) ==
    IF s # <<>> /\ s[Len(s)] = "/" THEN RStripSlash(Upto(s, Len(s) - 1)) ELSE s

\* s.endswith(suffix)
EndsWith(s, suffix) ==
    Len(s) >= Len(suffix) /\ From(s, Len(s) - Len(suffix) + 1) = suffix

SchemeSep == <<":", "/", "/">>

HttpsPrefix == <<"https", ":", "/", "/">>

-----------------------------------------------------------------------------
(* urllib.parse.urlparse, as the scrapers call it *)

\* url[:i] is a scheme: it starts with a letter and holds scheme characters only
IsScheme(s) ==
    /\ Len(s) > 0
    /\ s[1] \in Words
    /\ \A k \in 1..Len(s) : IsSchemeAtom(s[k])

\* urlparse's last step: the fragment is cut off the text after the path and
\* a leading "?" starts the query
QueryOf(tail) ==
    LET hash == Find(tail, "#")
    IN IF tail = <<>> \/ Head(tail) # "?" THEN <<>>
       ELSE IF hash = 0 THEN Tail(tail) ELSE SubSeq(tail, 2, hash - 1)

\* the ParseResult, or [err |-> TRUE] for the ValueError "Invalid IPv6 URL"
\* (a bracket in the netloc without its partner)
Parsed(netloc, path, tail) ==
    IF Find(netloc, "[") > 0
    THEN [err |-> TRUE, netloc |-> <<>>, path |-> <<>>, query |-> <<>>]
    ELSE [err |-> FALSE, netloc |-> netloc, path |-> path, query |-> QueryOf(tail)]

\* the text after the netloc: the path runs up to the first "?" or "#"
SplitPath(netloc, after) ==
    LET stop == MinPos({Find(after, "?"), Find(after, "#")})
    IN Parsed(netloc,
              IF stop = 0 THEN after ELSE Upto(after, stop - 1),
              IF stop = 0 THEN <<>> ELSE From(after, stop))

\* the text after "//": the netloc runs up to the first "/", "?" or "#"
SplitNetloc(body) ==
    LET cut == MinPos({Find(body, "/"), Find(body, "?"), Find(body, "#")})
    IN SplitPath(IF cut = 0 THEN body ELSE Upto(body, cut - 1),
                 IF cut = 0 THEN <<>> ELSE From(body, cut))

\* the text after the scheme: a netloc follows only a leading "//"
SplitRest(rest) ==
    IF Len(rest) >= 2 /\ Upto(rest, 2) = <<"/", "/">>
    THEN SplitNetloc(From(rest, 3))
    ELSE SplitPath(<<>>, rest)

\* The result of urlparse(u): the text before the first ":" is the scheme
\* when it is made of scheme characters; then netloc, path and query.
UrlParse(u) ==
    LET c == Find(u, ":")
    IN SplitRest(IF c > 1 /\ IsScheme(Upto(u, c - 1)) THEN From(u, c + 1) ELSE u)

\* url if "://" in url else f"https://{url}"
WithScheme(u) == IF HasSub(u, SchemeSep) THEN u ELSE HttpsPrefix \o u

\* fnmatch(name, pat) for patterns whose only special character is "*"
RECURSIVE FnMatch(_, _)
FnMatch(s, p) ==
    IF p = <<>> THEN s = <<>>
    ELSE IF Head(p) = "*"
         THEN FnMatch(s, Tail(p)) \/ (s # <<>> /\ FnMatch(Tail(s), p))
         ELSE s # <<>> /\ Head(s) = Head(p) /\ FnMatch(Tail(s), Tail(p))


-----------------------------------------------------------------------------
(* The scrapers: registration order, platform names, URL patterns *)

\* _SCRAPER_MODULES, each module with the one BaseScraper subclass it defines
ScraperModules ==
    <<"GitHubScraper", "GitLabScraper", "BilibiliScraper", "SteamScraper",
      "StackOverflowScraper", "DevtoScraper", "MediumScraper", "RedditScraper",
      "ZhihuScraper", "DoubanScraper", "WeiboScraper", "GoogleScholarScraper",
      "XiaohongshuScraper", "GenericScraper">>

ScraperNames == {ScraperModules[i] : i \in 1..Len(ScraperModules)}

\* url_patterns of each scraper class
UrlPatterns(sc) ==
    CASE sc = "GitHubScraper" -> {<<"github", ".", "com", "/", "*">>}
      [] sc = "GitLabScraper" -> {<<"gitlab", ".", "com", "/", "*">>}
      [] sc = "BilibiliScraper" ->
            {<<"*", "space", ".", "bilibili", ".", "com", "/", "*">>,
             <<"*", "bilibili", ".", "com", "/", "video", "/", "*">>}
      [] sc = "SteamScraper" ->
            {<<"store", ".", "steampowered", ".", "com", "/", "*">>,
             <<"steamcommunity", ".", "com", "/", "*">>}
      [] sc = "StackOverflowScraper" -> {<<"stackoverflow", ".", "com", "/", "*">>}
      [] sc = "DevtoScraper" -> {<<"dev", ".", "to", "/", "*">>}
      [] sc = "MediumScraper" ->
            {<<"medium", ".", "com", "/", "*">>, <<"*", ".", "medium", ".", "com", "*">>}
      [] sc = "RedditScraper" -> {<<"*", "reddit", ".", "com", "/", "*">>}
      [] sc = "ZhihuScraper" -> {<<"*", "zhihu", ".", "com", "/", "*">>}
      [] sc = "DoubanScraper" -> {<<"*", "douban", ".", "com", "/", "people", "/", "*">>}
      [] sc = "WeiboScraper" -> {<<"*", "weibo", ".", "com", "/", "*">>}
      [] sc = "GoogleScholarScraper" ->
            {<<"scholar", ".", "google", ".", "com", "/", "citations", "*">>,
             <<"scholar", ".", "google", ".", "com", ".", "*", "/", "citations", "*">>}
      [] sc = "XiaohongshuScraper" ->
            {<<"*", "xiaohongshu", ".", "com", "/", "user", "/", "profile", "/", "*">>,
             <<"*", "xhslink", ".", "com", "/", "*">>}
      [] sc = "GenericScraper" -> {<<"*">>}

\* BaseScraper.can_handle: "true", "false", or "raise" when urlparse raises
BaseCanHandle(sc, u) ==
    LET parsed    == UrlParse(WithScheme(u))
        host_path == parsed.netloc \o parsed.path
    IN IF parsed.err THEN "raise"
       ELSE IF \E p \in UrlPatterns(sc) : FnMatch(host_path, p) THEN "true"
       ELSE "false"

\* scraper.can_handle(url): GenericScraper overrides it to return True
CanHandle(sc, u) ==
    IF sc = "GenericScraper" THEN "true" ELSE BaseCanHandle(sc, u)

\* LinkRouter.resolve: the first scraper of the list, from position i on, that
\* can handle the url; "None" when the loop ends; "ValueError" when a
\* can_handle call raises
RECURSIVE ResolveFrom(_, _, _)
ResolveFrom(list, u, i) ==
    IF i > Len(list) THEN "None"
    ELSE LET h == CanHandle(list[i], u)
         IN IF h = "raise" THEN "ValueError"
            ELSE IF h = "true" THEN list[i]
            ELSE ResolveFrom(list, u, i + 1)

\* a resolve that scans the registered scrapers from the last to the first
RECURSIVE ResolveDown(_, _, _)
ResolveDown(list, u, i) ==
    IF i < 1 THEN "None"
    ELSE LET h == CanHandle(list[i], u)
         IN IF h = "raise" THEN "ValueError"
            ELSE IF h = "true" THEN list[i]
            ELSE ResolveDown(list, u, i - 1)

RouterResolveLast(list, u) == ResolveDown(list, u, Len(list))

RouterResolve(list, u) == ResolveFrom(list, u, 1)

\* The third-party packages a scraper module imports when it is loaded (httpx
\* comes with whoami.utils.http or is imported directly)
ModuleImports(sc) ==
    IF sc = "GenericScraper" THEN {"httpx", "trafilatura"}
    ELSE IF sc = "GoogleScholarScraper" THEN {}
    ELSE {"httpx"}

-----------------------------------------------------------------------------
(* The inputs of the router specification *)

Schemes == {<<>>, <<"https", ":", "/", "/">>, <<"/", "/">>}

Hosts ==
    {<<>>, <<"[">>,
     <<"github", ".", "com">>, <<"www", ".", "github", ".", "com">>,
     <<"GitHub", ".", "com">>, <<"octocat", "@", "github", ".", "com">>,
     <<"gitlab", ".", "com">>,
     <<"space", ".", "bilibili", ".", "com">>, <<"www", ".", "bilibili", ".", "com">>,
     <<"steamcommunity", ".", "com">>, <<"store", ".", "steampowered", ".", "com">>,
     <<"stackoverflow", ".", "com">>, <<"dev", ".", "to">>,
     <<"medium", ".", "com">>, <<"octocat", ".", "medium", ".", "com">>,
     <<"www", ".", "reddit", ".", "com">>, <<"www", ".", "zhihu", ".", "com">>,
     <<"www", ".", "douban", ".", "com">>, <<"weibo", ".", "com">>,
     <<"scholar", ".", "google", ".", "com">>,
     <<"scholar", ".", "google", ".", "com", ".", "hk">>,
     <<"www", ".", "xiaohongshu", ".", "com">>, <<"xhslink", ".", "com">>,
     <<"example", ".", "com">>, <<"www", ".", "example", ".", "com">>}

Paths ==
    {<<>>, <<"/">>, <<"/", "octocat">>,
     <<"/", "users", "/", "1", "/", "octocat">>,
     <<"/", "user", "/", "octocat">>,
     <<"/", "people", "/", "octocat">>,
     <<"/", "video", "/", "1">>,
     <<"/", "citations", "?", "user", "=", "1">>,
     <<"/", "user", "/", "profile", "/", "1">>,
     <<"/", "reddit", ".", "com", "/", "octocat">>,
     <<"/", "octocat", "#", "/", "video", "/", "1">>,
     <<"/", "octocat", ":", "/", "/", "github", ".", "com", "/">>}

Urls == {s \o h \o p : s \in Schemes, h \in Hosts, p \in Paths}

-----------------------------------------------------------------------------
(* ScrapedData, ScrapedItem and the upstream *)

\* Python's None where a string is expected
NoneVal == <<"<None>">>

\* ScrapedItem(category=c, key=k, ...)
Item(c, k) == [category |-> c, key |-> k]

\* ScrapedData(platform=..., username=..., bio=..., items=..., raw=..., source_url=...)
ScrapedData(platform, username, bio, items, raw, source_url) ==
    [kind |-> "record", platform |-> platform, username |-> username, bio |-> bio,
     items |-> items, raw |-> raw, source_url |-> source_url, exc |-> "-"]

\* scrape raised the exception exc instead of returning
Raised(exc) ==
    [kind |-> "raise", platform |-> <<>>, username |-> NoneVal, bio |-> NoneVal,
     items |-> <<>>, raw |-> {}, source_url |-> <<>>, exc |-> exc]

NoResult ==
    [kind |-> "none", platform |-> <<>>, username |-> NoneVal, bio |-> NoneVal,
     items |-> <<>>, raw |-> {}, source_url |-> <<>>, exc |-> "-"]

\* get_platform_name of each scraper class, a one-atom string
\* (GenericScraper.scrape puts the URL's domain in its place)
PlatformName(c) ==
    CASE c = "GitHubScraper" -> <<"GitHub">>
      [] c = "GitLabScraper" -> <<"GitLab">>
      [] c = "BilibiliScraper" -> <<"Bilibili">>
      [] c = "SteamScraper" -> <<"Steam">>
      [] c = "StackOverflowScraper" -> <<"Stack Overflow">>
      [] c = "DevtoScraper" -> <<"Dev.to">>
      [] c = "MediumScraper" -> <<"Medium">>
      [] c = "RedditScraper" -> <<"Reddit">>
      [] c = "ZhihuScraper" -> <<"Zhihu">>
      [] c = "DoubanScraper" -> <<"Douban">>
      [] c = "WeiboScraper" -> <<"Weibo">>
      [] c = "GoogleScholarScraper" -> <<"Google Scholar">>
      [] c = "XiaohongshuScraper" -> <<"Xiaohongshu">>
      [] c = "GenericScraper" -> <<"generic">>

\* How an upstream request can end other than with the expected 2xx payload:
\* an HTTP 4xx/5xx answer, no answer within the timeout, a 2xx answer whose
\* body is not the JSON/XML/HTML the scraper parses
UpstreamFailures == {"http_error", "timeout", "malformed"}

\* what fetch_json / fetch_text / client.get(...).json() raise on a failure
FetchExc(o) ==
    CASE o = "http_error" -> "HTTPStatusError"
      [] o = "timeout" -> "TimeoutException"
      [] o = "malformed" -> "DecodeError"

\* the free text a profile answer may carry as the user's bio, character by
\* character: one without and one with an e-mail address
UpstreamBios == {<<"h", "i">>, <<"a", "@", "b", ".", "c">>}

\* One completed upstream request: the endpoint (with the parameters that
\* tell two requests apart), whether the call carries config.timeout, and
\* how it ended
Req(ep, carries, out) == [ep |-> ep, timeout |-> carries, out |-> out]

\* the local variables every scrape starts with
Loc0 ==
    [id |-> NoneVal, username |-> NoneVal, bio |-> NoneVal, items |-> <<>>,
     raw |-> {}, flag |-> FALSE, keys |-> "-", i |-> 0, pending |-> {}, got |-> {}]

ScrapeIdle ==
    /\ scraper = "-"
    /\ surl = <<>>
    /\ spc = "idle"
    /\ reqs = <<>>
    /\ loc = Loc0
    /\ srec = NoResult

\* _run has not been called
RunIdle ==
    /\ links = <<>>
    /\ rpc = "idle"
    /\ tasks = <<>>
    /\ queue = <<>>
    /\ taken = 0
    /\ results = <<>>

\* _sign_wbi has not been called
SignIdle ==
    /\ calls = <<>>
    /\ img_key = <<>>
    /\ sub_key = <<>>
    /\ wts = <<>>

\* strip_sensitive has not been called
PrivacyIdle ==
    /\ ptext = <<>>
    /\ ppc = "idle"
    /\ once = <<>>
    /\ twice = <<>>

\* synthesize has not been called
SynthIdle ==
    /\ ypc = "idle"
    /\ llm_calls = <<>>
    /\ identity_md = <<>>
    /\ soul_md = <<>>
    /\ agents_md = <<>>
    /\ generated = <<>>

\* write_files has not been called
OutputIdle ==
    /\ files = <<>>
    /\ output_dir = <<>>
    /\ disk = <<>>
    /\ wpc = "idle"
    /\ written = <<>>
    /\ wrote = <<>>

\* main has not entered interactive mode
CollectIdle ==
    /\ collected = <<>>
    /\ cpc = "idle"
    /\ entered = <<>>
    /\ previous = <<>>
    /\ echoed = <<>>

\* the coroutine ends with result r
Finish(r) ==
    /\ spc' = "done"
    /\ srec' = r

-----------------------------------------------------------------------------
(* Regular-expression searches on the url *)

AlnumAtoms == Words \cup Digits

\* the longest run of atoms of the set A in s from position i on
RECURSIVE Run(_, _, _)
Run(s, i, A) ==
    IF i > Len(s) \/ s[i] \notin A THEN <<>>
    ELSE <<s[i]>> \o Run(s, i + 1, A)

\* re.search(lit + "([A]+)", s): group 1 of the leftmost match, NoneVal
\* when there is no match
SearchAfter(s, lit, A) ==
    LET P == {i \in 1..(Len(s) - Len(lit) + 1) :
                 /\ SubSeq(s, i, i + Len(lit) - 1) = lit
                 /\ Run(s, i + Len(lit), A) # <<>>}
    IN IF P = {} THEN NoneVal
       ELSE Run(s, (CHOOSE i \in P : \A j \in P : i <= j) + Len(lit), A)

-----------------------------------------------------------------------------
(* BilibiliScraper *)

\* _extract_mid: re.search(r"space\.bilibili\.com/(\d+)", url)
ExtractMid(u) ==
    SearchAfter(u, <<"space", ".", "bilibili", ".", "com", "/">>, Digits)

\* what _parse_card makes of a code-0 card payload
BiliCardItems ==
    <<Item("profile", "level"), Item("profile", "avatar"), Item("profile", "sex"),
      Item("stats", "archive_count"), Item("stats", "total_likes")>>

\* the two items built from a code-0 relation/stat payload
BiliStatItems == <<Item("stats", "followers"), Item("stats", "following")>>

\* the code-0 answers of a video search: one video with a title, or one video
\* without a "title" field
VideoPayloads == {"ok", "untitled"}

\* _parse_videos on a payload with one video: title = v.get("title", ""),
\* key=title
BiliVideoItems(o) == <<Item("video", IF o = "untitled" THEN "" ELSE "title")>>

BiliRun == scraper = "BilibiliScraper"

\* BiliStart going to the card request without _init_session
BiliStartNoWarmUp ==
    /\ BiliRun /\ spc = "start"
    /\ LET mid == ExtractMid(surl)
       IN IF mid = NoneVal
          THEN /\ Finish(ScrapedData(PlatformName(scraper), NoneVal, NoneVal, <<>>,
                                     {"error"}, surl))
               /\ UNCHANGED <<loc>>
          ELSE /\ loc' = [loc EXCEPT !.id = mid]
               /\ spc' = "card"
               /\ UNCHANGED <<srec>>
    /\ UNCHANGED <<outsideScrape, scraper, surl, reqs>>

\* scrape, lines 163-174: no mid gives a record with an error note
BiliStart ==
    /\ BiliRun /\ spc = "start"
    /\ LET mid == ExtractMid(surl)
       IN IF mid = NoneVal
          THEN /\ Finish(ScrapedData(PlatformName(scraper), NoneVal, NoneVal, <<>>,
                                     {"error"}, surl))
               /\ UNCHANGED <<loc>>
          ELSE /\ loc' = [loc EXCEPT !.id = mid]
               /\ spc' = "init_root"
               /\ UNCHANGED <<srec>>
    /\ UNCHANGED <<outsideScrape, scraper, surl, reqs>>

\* _init_session, first request: GET https://www.bilibili.com/ outside any
\* try; the answer is not looked at, an exception leaves scrape
BiliInitRoot(o) ==
    /\ BiliRun /\ spc = "init_root"
    /\ o \in {"ok", "http_error", "timeout"}
    /\ reqs' = Append(reqs, Req(<<"www.bilibili.com/">>, TRUE, o))
    /\ IF o = "timeout"
       THEN Finish(Raised("TimeoutException"))
       ELSE spc' = "init_spi" /\ UNCHANGED srec
    /\ UNCHANGED <<outsideScrape, scraper, surl, loc>>

\* _init_session, second request: the fingerprint endpoint, inside a
\* try/except Exception: pass
BiliInitSpi(o) ==
    /\ BiliRun /\ spc = "init_spi"
    /\ o \in {"ok"} \cup UpstreamFailures
    /\ reqs' = Append(reqs, Req(<<"x/frontend/finger/spi">>, TRUE, o))
    /\ spc' = "card"
    /\ UNCHANGED <<outsideScrape, scraper, surl, loc, srec>>

\* the card request: only a code-0 JSON answer adds anything
BiliCard(o) ==
    /\ BiliRun /\ spc = "card"
    /\ o \in {"ok", "nonzero"} \cup UpstreamFailures
    /\ reqs' = Append(reqs, Req(<<"x/web-interface/card", loc.id>>, TRUE, o))
    /\ loc' = IF o = "ok"
              THEN [loc EXCEPT !.username = <<"card.name">>, !.bio = <<"card.sign">>,
                               !.items = @ \o BiliCardItems, !.raw = @ \cup {"card"}]
              ELSE loc
    /\ spc' = "stat"
    /\ UNCHANGED <<outsideScrape, scraper, surl, srec>>

\* the relation/stat request
BiliStat(o) ==
    /\ BiliRun /\ spc = "stat"
    /\ o \in {"ok", "nonzero"} \cup UpstreamFailures
    /\ reqs' = Append(reqs, Req(<<"x/relation/stat", loc.id>>, TRUE, o))
    /\ loc' = IF o = "ok"
              THEN [loc EXCEPT !.items = @ \o BiliStatItems, !.raw = @ \cup {"stat"}]
              ELSE loc
    /\ spc' = "nav"
    /\ UNCHANGED <<outsideScrape, scraper, surl, srec>>

\* _get_wbi_keys: "ok" gives two keys of 32 characters, "nokeys" a JSON answer
\* without wbi_img (both keys ""), "shortkeys" two keys too short for the
\* mixin table (_sign_wbi raises IndexError); every exception is caught by
\* the try around the signed search
BiliNav(o) ==
    /\ BiliRun /\ spc = "nav"
    /\ o \in {"ok", "nokeys", "shortkeys"} \cup UpstreamFailures
    /\ reqs' = Append(reqs, Req(<<"x/web-interface/nav">>, TRUE, o))
    /\ loc' = [loc EXCEPT !.keys = o, !.flag = FALSE]
    /\ spc' = IF o = "ok" THEN "signed" ELSE "fallback"
    /\ UNCHANGED <<outsideScrape, scraper, surl, srec>>

\* BiliSigned with video_fetched set before the answer is looked at
BiliSignedSetsFlagEarly(o) ==
    /\ BiliRun /\ spc = "signed"
    /\ o \in VideoPayloads \cup {"nonzero", "badshape"} \cup UpstreamFailures
    /\ reqs' = Append(reqs, Req(<<"x/space/wbi/arc/search", loc.id>>, TRUE, o))
    /\ loc' = IF o \in VideoPayloads
              THEN [loc EXCEPT !.items = @ \o BiliVideoItems(o),
                               !.raw = @ \cup {"videos"}, !.flag = TRUE]
              ELSE [loc EXCEPT !.flag = TRUE]
    /\ spc' = "return"
    /\ UNCHANGED <<outsideScrape, scraper, surl, srec>>

\* the WBI-signed search: video_fetched is set only after a code-0 answer
\* whose list _parse_videos has turned into items ("badshape": code 0, but
\* _parse_videos raises on the payload)
BiliSigned(o) ==
    /\ BiliRun /\ spc = "signed"
    /\ o \in VideoPayloads \cup {"nonzero", "badshape"} \cup UpstreamFailures
    /\ reqs' = Append(reqs, Req(<<"x/space/wbi/arc/search", loc.id>>, TRUE, o))
    /\ loc' = IF o \in VideoPayloads
              THEN [loc EXCEPT !.items = @ \o BiliVideoItems(o),
                               !.raw = @ \cup {"videos"}, !.flag = TRUE]
              ELSE loc
    /\ spc' = IF o \in VideoPayloads THEN "return" ELSE "fallback"
    /\ UNCHANGED <<outsideScrape, scraper, surl, srec>>

\* if not video_fetched: the unsigned arc/search endpoint
BiliFallback(o) ==
    /\ BiliRun /\ spc = "fallback"
    /\ o \in VideoPayloads \cup {"nonzero", "badshape"} \cup UpstreamFailures
    /\ reqs' = Append(reqs, Req(<<"x/space/arc/search", loc.id>>, TRUE, o))
    /\ loc' = IF o \in VideoPayloads
              THEN [loc EXCEPT !.items = @ \o BiliVideoItems(o), !.raw = @ \cup {"videos"}]
              ELSE loc
    /\ spc' = "return"
    /\ UNCHANGED <<outsideScrape, scraper, surl, srec>>

\* return ScrapedData(...), lines 265-272
BiliReturn ==
    /\ BiliRun /\ spc = "return"
    /\ Finish(ScrapedData(PlatformName(scraper), loc.username, loc.bio, loc.items,
                          loc.raw, surl))
    /\ UNCHANGED <<outsideScrape, scraper, surl, reqs, loc>>

-----------------------------------------------------------------------------
(* The scrapers with one upstream request *)

\* the first path segment, "" when the path is empty:
\* path = parsed.path.strip("/"); path.split("/")[0] if path else ""
FirstSegment(u) ==
    LET parts == PathParts(UrlParse(WithScheme(u)).path)
    IN IF parts = <<>> THEN <<>> ELSE parts[1]

\* DevtoScraper._extract_username
DevtoExtractUsername(u) == FirstSegment(u)

\* DevtoScraper.scrape: fetch_json is awaited outside any try, so what it
\* raises leaves scrape; "empty" is the answer [] of an unknown user
DevtoScrape(o) ==
    /\ scraper = "DevtoScraper" /\ spc = "start"
    /\ o \in {"ok", "empty"} \cup UpstreamFailures
    /\ reqs' = Append(reqs, Req(<<"dev.to/api/articles", DevtoExtractUsername(surl)>>,
                                TRUE, o))
    /\ Finish(IF o \in UpstreamFailures THEN Raised(FetchExc(o))
              ELSE IF o = "empty"
              THEN ScrapedData(PlatformName(scraper), NoneVal, NoneVal, <<>>,
                               {"user", "articles"}, surl)
              ELSE ScrapedData(PlatformName(scraper), <<"user.username">>,
                               <<"user.summary">>,
                               <<Item("profile", "name"), Item("article", "title")>>,
                               {"user", "articles"}, surl))
    /\ UNCHANGED <<outsideScrape, scraper, surl, loc>>

\* MediumScraper._extract_username: the text after "@" in the path up to the
\* next "/", else the first label of a *.medium.com host, else ""
MediumExtractUsername(u) ==
    LET parsed == UrlParse(WithScheme(u))
        at     == Find(parsed.path, "@")
    IN IF at > 0 THEN SplitOn(SplitOn(parsed.path, "@")[2], "/")[1]
       ELSE IF EndsWith(parsed.netloc, <<".", "medium", ".", "com">>)
            THEN SplitOn(parsed.netloc, ".")[1]
            ELSE <<>>

\* MediumScraper.scrape: fetch_text and ET.fromstring are outside any try;
\* "nochannel" is well-formed XML without a channel element (ValueError)
MediumScrape(o) ==
    /\ scraper = "MediumScraper" /\ spc = "start"
    /\ o \in {"ok", "nochannel"} \cup UpstreamFailures
    /\ reqs' = Append(reqs, Req(<<"medium.com/feed/@", MediumExtractUsername(surl)>>,
                                TRUE, o))
    /\ Finish(IF o \in {"http_error", "timeout"} THEN Raised(FetchExc(o))
              ELSE IF o = "malformed" THEN Raised("ParseError")
              ELSE IF o = "nochannel" THEN Raised("ValueError")
              ELSE ScrapedData(PlatformName(scraper), MediumExtractUsername(surl),
                               NoneVal,
                               <<Item("profile", "name"), Item("article", "title")>>,
                               {"rss_url", "author_name"}, surl))
    /\ UNCHANGED <<outsideScrape, scraper, surl, loc>>

\* SteamScraper._resolve_profile_url
ResolveProfileUrl(u) ==
    LET withScheme == IF HasSub(u, SchemeSep) THEN u ELSE HttpsPrefix \o u
        parsed     == UrlParse(withScheme)
    IN IF \/ HasSub(parsed.netloc, <<"steamcommunity", ".", "com">>)
          \/ HasSub(parsed.netloc, <<"store", ".", "steampowered", ".", "com">>)
       THEN HttpsPrefix \o <<"steamcommunity", ".", "com">> \o RStripSlash(parsed.path)
       ELSE withScheme

\* SteamScraper.scrape: fetch_text is awaited outside any try; the page is
\* read with regular expressions, so a page that is not a profile
\* ("malformed") gives a record without items
SteamScrape(o) ==
    /\ scraper = "SteamScraper" /\ spc = "start"
    /\ o \in {"ok", "private"} \cup UpstreamFailures
    /\ LET profile_url == ResolveProfileUrl(surl)
       IN /\ reqs' = Append(reqs, Req(profile_url, TRUE, o))
          /\ Finish(CASE o \in {"http_error", "timeout"} -> Raised(FetchExc(o))
                      [] o = "malformed" ->
                           ScrapedData(PlatformName(scraper), NoneVal, NoneVal, <<>>,
                                       {"profile_url"}, profile_url)
                      [] o = "private" ->
                           ScrapedData(PlatformName(scraper), <<"persona_name">>, NoneVal,
                                       <<Item("profile", "visibility")>>,
                                       {"profile_url"}, profile_url)
                      [] o = "ok" ->
                           ScrapedData(PlatformName(scraper), <<"persona_name">>,
                                       <<"summary">>,
                                       <<Item("profile", "real_name"),
                                         Item("stats", "level"), Item("game", "name")>>,
                                       {"profile_url"}, profile_url))
    /\ UNCHANGED <<outsideScrape, scraper, surl, loc>>

\* DoubanScraper._extract_user_id: parts[1] when parts[0] == "people",
\* NoneVal standing for the ValueError
DoubanExtractUserId(u) ==
    LET parts == PathParts(UrlParse(WithScheme(u)).path)
    IN IF Len(parts) >= 2 /\ parts[1] = <<"people">> THEN parts[2] ELSE NoneVal

\* DoubanScraper.scrape: the id is extracted before the try, the fetch and
\* the parsing are inside it
DoubanScrape(o) ==
    /\ scraper = "DoubanScraper" /\ spc = "start"
    /\ o \in {"ok"} \cup UpstreamFailures
    /\ LET user_id     == DoubanExtractUserId(surl)
           profile_url == HttpsPrefix \o <<"www", ".", "douban", ".", "com", "/",
                                           "people", "/">> \o user_id \o <<"/">>
       IN IF user_id = NoneVal
          THEN /\ Finish(Raised("ValueError"))
               /\ UNCHANGED reqs
          ELSE /\ reqs' = Append(reqs, Req(profile_url, TRUE, o))
               /\ Finish(CASE o \in {"http_error", "timeout"} ->
                                ScrapedData(PlatformName(scraper), user_id, NoneVal,
                                            <<>>, {"error"}, profile_url)
                           [] o = "malformed" ->
                                ScrapedData(PlatformName(scraper), NoneVal, NoneVal,
                                            <<>>, {"html_length"}, profile_url)
                           [] o = "ok" ->
                                ScrapedData(PlatformName(scraper), <<"title">>,
                                            <<"intro">>,
                                            <<Item("profile", "location"),
                                              Item("stats", "books_read")>>,
                                            {"html_length"}, profile_url))
    /\ UNCHANGED <<outsideScrape, scraper, surl, loc>>

\* xiaohongshu._extract_user_id:
\* re.search(r"xiaohongshu\.com/user/profile/([a-zA-Z0-9]+)", url)
XhsExtractUserId(u) ==
    SearchAfter(u, <<"xiaohongshu", ".", "com", "/", "user", "/", "profile", "/">>,
                AlnumAtoms)

\* XiaohongshuScraper.scrape: no id, a failed fetch and a page without
\* parsable state ("malformed") each give a record with an error note
XhsScrape(o) ==
    /\ scraper = "XiaohongshuScraper" /\ spc = "start"
    /\ o \in {"ok"} \cup UpstreamFailures
    /\ LET user_id == XhsExtractUserId(surl)
       IN IF user_id = NoneVal
          THEN /\ Finish(ScrapedData(PlatformName(scraper), NoneVal, NoneVal, <<>>,
                                     {"error"}, surl))
               /\ UNCHANGED reqs
          ELSE /\ reqs' = Append(reqs, Req(<<"xiaohongshu.com/user/profile", user_id>>,
                                           TRUE, o))
               /\ Finish(IF o = "ok"
                         THEN ScrapedData(PlatformName(scraper), <<"nickname">>,
                                          <<"desc">>,
                                          <<Item("profile", "avatar"),
                                            Item("stats", "followers"),
                                            Item("note", "title")>>,
                                          {"user"}, surl)
                         ELSE ScrapedData(PlatformName(scraper), NoneVal, NoneVal, <<>>,
                                          {"error"}, surl))
    /\ UNCHANGED <<outsideScrape, scraper, surl, loc>>

\* GenericScraper._extract_domain:
\* host = parsed.netloc or parsed.path.split("/")[0]; host.removeprefix("www.")
ExtractDomain(u) ==
    LET parsed == UrlParse(WithScheme(u))
        host   == IF parsed.netloc # <<>> THEN parsed.netloc
                  ELSE SplitOn(parsed.path, "/")[1]
    IN IF Len(host) >= 2 /\ Upto(host, 2) = <<"www", ".">> THEN From(host, 3) ELSE host

\* fetch_text(url) sends a request only for an http:// or https:// url;
\* httpx raises UnsupportedProtocol for any other before sending
IsHttpUrl(u) ==
    Len(u) >= 4 /\ u[1] \in {"http", "https"} /\ SubSeq(u, 2, 4) = SchemeSep

\* scrape without the try around fetch_text: what the fetch raises leaves scrape
GenericScrapeUnguarded(o) ==
    /\ scraper = "GenericScraper" /\ spc = "start"
    /\ o \in {"ok", "unsupported"} \cup UpstreamFailures
    /\ (o = "unsupported") <=> ~IsHttpUrl(surl)
    /\ reqs' = IF o = "unsupported" THEN reqs ELSE Append(reqs, Req(surl, TRUE, o))
    /\ Finish(IF o = "ok"
              THEN ScrapedData(ExtractDomain(surl), NoneVal, <<"description">>,
                               <<Item("content", "title"), Item("content", "text")>>,
                               {"title", "text"}, surl)
              ELSE IF o = "malformed"
                   THEN ScrapedData(ExtractDomain(surl), NoneVal, NoneVal, <<>>, {}, surl)
                   ELSE Raised(IF o = "unsupported" THEN "UnsupportedProtocol"
                               ELSE FetchExc(o)))
    /\ UNCHANGED <<outsideScrape, scraper, surl, loc>>

\* GenericScraper.scrape: a failed fetch and a failed extraction
\* ("malformed": _extract returns None) give a record with the domain only
GenericScrape(o) ==
    /\ scraper = "GenericScraper" /\ spc = "start"
    /\ o \in {"ok", "unsupported"} \cup UpstreamFailures
    /\ (o = "unsupported") <=> ~IsHttpUrl(surl)
    /\ reqs' = IF o = "unsupported" THEN reqs ELSE Append(reqs, Req(surl, TRUE, o))
    /\ Finish(IF o = "ok"
              THEN ScrapedData(ExtractDomain(surl), NoneVal, <<"description">>,
                               <<Item("content", "title"), Item("content", "text")>>,
                               {"title", "text"}, surl)
              ELSE ScrapedData(ExtractDomain(surl), NoneVal, NoneVal, <<>>, {}, surl))
    /\ UNCHANGED <<outsideScrape, scraper, surl, loc>>

\* parse_qs(parsed.query).get("user", []): the value of a leading user=
\* parameter, blank values dropped
QueryUser(q) ==
    IF Len(q) >= 3 /\ q[1] = "user" /\ q[2] = "=" THEN From(q, 3) ELSE NoneVal

\* GoogleScholarScraper._extract_author_id, NoneVal standing for the ValueError
ExtractAuthorId(u) == QueryUser(UrlParse(WithScheme(u)).query)

\* GoogleScholarScraper.scrape up to the await: the blocking _fetch_author is
\* handed to the default executor; neither run_in_executor nor _fetch_author
\* is given config.timeout
ScholarStart ==
    /\ scraper = "GoogleScholarScraper" /\ spc = "start"
    /\ LET author_id == ExtractAuthorId(surl)
       IN IF author_id = NoneVal
          THEN /\ Finish(Raised("ValueError"))
               /\ UNCHANGED reqs
          ELSE /\ reqs' = Append(reqs, Req(<<"scholarly", author_id>>, FALSE, "pending"))
               /\ spc' = "executor"
               /\ UNCHANGED srec
    /\ UNCHANGED <<outsideScrape, scraper, surl, loc>>

\* the executor call ends: with the filled author, or with an exception
\* that the try turns into a bare record
ScholarDone(o) ==
    /\ scraper = "GoogleScholarScraper" /\ spc = "executor"
    /\ o \in {"ok", "http_error", "malformed"}
    /\ reqs' = [reqs EXCEPT ![Len(reqs)].out = o]
    /\ Finish(IF o = "ok"
              THEN ScrapedData(PlatformName(scraper), <<"name">>, <<"affiliation">>,
                               <<Item("profile", "name"), Item("publication", "title")>>,
                               {"name", "affiliation"}, surl)
              ELSE ScrapedData(PlatformName(scraper), NoneVal, NoneVal, <<>>, {}, surl))
    /\ UNCHANGED <<outsideScrape, scraper, surl, loc>>

-----------------------------------------------------------------------------
(* The scrapers with three concurrent sub-fetches: asyncio.gather *)

\* GitHubScraper._extract_username / GitLabScraper._extract_username: the
\* first path part, NoneVal standing for the ValueError
ExtractUsername(u) ==
    LET parts == PathParts(UrlParse(WithScheme(u)).path)
    IN IF parts = <<>> THEN NoneVal ELSE parts[1]

\* StackOverflowScraper._extract_user_id: /users/<digits>/..., NoneVal
\* standing for the ValueError
SoExtractUserId(u) ==
    LET parts == PathParts(UrlParse(WithScheme(u)).path)
    IN IF /\ Len(parts) >= 2
          /\ parts[1] = <<"users">>
          /\ \A k \in 1..Len(parts[2]) : parts[2][k] \in Digits
       THEN parts[2] ELSE NoneVal

\* RedditScraper._extract_username: /user/<name> or /u/<name>, NoneVal
\* standing for the ValueError
RedditExtractUsername(u) ==
    LET parts == PathParts(UrlParse(WithScheme(u)).path)
    IN IF Len(parts) < 2 \/ parts[1] \notin {<<"user">>, <<"u">>}
       THEN NoneVal ELSE parts[2]

\* the three coroutines handed to asyncio.gather, in argument order
Branches(c) ==
    CASE c = "GitHubScraper" -> <<"user", "repos", "orgs">>
      [] c = "StackOverflowScraper" -> <<"user", "tags", "answers">>
      [] c = "RedditScraper" -> <<"about", "posts", "comments">>

\* item builders that file the profile fields under "stats"
BranchItemsNoProfile(c, b) ==
    CASE b \in {"user", "about"} -> <<Item("stats", "name")>>
      [] b = "repos" -> <<Item("repo", "name")>>
      [] b = "orgs" -> <<Item("organization", "login")>>
      [] b = "tags" -> <<Item("tag", "name")>>
      [] b = "answers" -> <<Item("answer", "title")>>
      [] b = "posts" -> <<Item("post", "title")>>
      [] b = "comments" -> <<Item("comment_activity", "subreddit")>>

\* the items _build_*_items makes of one branch's data
BranchItems(c, b) ==
    CASE b \in {"user", "about"} -> <<Item("profile", "name")>>
      [] b = "repos" -> <<Item("repo", "name")>>
      [] b = "orgs" -> <<Item("organization", "login")>>
      [] b = "tags" -> <<Item("tag", "name")>>
      [] b = "answers" -> <<Item("answer", "title")>>
      [] b = "posts" -> <<Item("post", "title")>>
      [] b = "comments" -> <<Item("comment_activity", "subreddit")>>

\* items.extend(...) for each branch whose data is truthy, in the fixed
\* order of the code
RECURSIVE GatherItems(_, _, _)
GatherItems(c, got, k) ==
    IF k > Len(Branches(c)) THEN <<>>
    ELSE (IF Branches(c)[k] \in got THEN BranchItems(c, Branches(c)[k]) ELSE <<>>)
         \o GatherItems(c, got, k + 1)

\* scrape up to asyncio.gather(...): the identifier, then the three
\* sub-fetches are started together
GatherStart(c, ident) ==
    /\ spc = "start"
    /\ IF ident = NoneVal
       THEN /\ Finish(Raised("ValueError"))
            /\ UNCHANGED loc
       ELSE /\ loc' = [loc EXCEPT !.id = ident,
                                  !.pending = {Branches(c)[k] : k \in 1..3}]
            /\ spc' = "gather"
            /\ UNCHANGED srec
    /\ UNCHANGED <<outsideScrape, scraper, surl, reqs>>

\* the bio after branch b has ended with o: the profile branch brings the
\* text of the answer's bio field (bio, about_me, public_description)
BranchBios(b, o) ==
    IF o = "ok" /\ b \in {"user", "about"} THEN UpstreamBios ELSE {loc.bio}

\* a gather that gives up on the first failure: the branches still pending
\* are cancelled with it
SubFetchCancelsOthers(b, o) ==
    /\ spc = "gather"
    /\ b \in loc.pending
    /\ o \in {"ok"} \cup UpstreamFailures
    /\ reqs' = Append(reqs, Req(<<b, loc.id>>, TRUE, o))
    /\ \E t \in BranchBios(b, o) :
           loc' = [loc EXCEPT !.pending = IF o = "ok" THEN @ \ {b} ELSE {},
                              !.got = IF o = "ok" THEN @ \cup {b} ELSE @,
                              !.bio = t]
    /\ UNCHANGED <<outsideScrape, scraper, surl, spc, srec>>

\* one sub-fetch ends; its own try/except turns every failure into None
SubFetch(b, o) ==
    /\ spc = "gather"
    /\ b \in loc.pending
    /\ o \in {"ok"} \cup UpstreamFailures
    /\ reqs' = Append(reqs, Req(<<b, loc.id>>, TRUE, o))
    /\ \E t \in BranchBios(b, o) :
           loc' = [loc EXCEPT !.pending = @ \ {b},
                              !.got = IF o = "ok" THEN @ \cup {b} ELSE @,
                              !.bio = t]
    /\ UNCHANGED <<outsideScrape, scraper, surl, spc, srec>>

\* gather has all three results: build the record
GatherReturn(c, username, bio) ==
    /\ spc = "gather"
    /\ loc.pending = {}
    /\ Finish(ScrapedData(PlatformName(c), username, bio, GatherItems(c, loc.got, 1),
                          {Branches(c)[k] : k \in 1..3}, surl))
    /\ UNCHANGED <<outsideScrape, scraper, surl, reqs, loc>>

\* GitHubScraper.scrape
GitHubStart ==
    /\ scraper = "GitHubScraper"
    /\ GatherStart(scraper, ExtractUsername(surl))

\* _fetch_user, _fetch_repos, _fetch_orgs
GitHubFetch(b, o) ==
    /\ scraper = "GitHubScraper"
    /\ SubFetch(b, o)

GitHubReturn ==
    /\ scraper = "GitHubScraper"
    /\ GatherReturn(scraper, loc.id,
                    IF "user" \in loc.got THEN loc.bio ELSE NoneVal)

\* StackOverflowScraper.scrape
StackOverflowStart ==
    /\ scraper = "StackOverflowScraper"
    /\ GatherStart(scraper, SoExtractUserId(surl))

\* _fetch_user, _fetch_top_tags, _fetch_top_answers
StackOverflowFetch(b, o) ==
    /\ scraper = "StackOverflowScraper"
    /\ SubFetch(b, o)

StackOverflowReturn ==
    /\ scraper = "StackOverflowScraper"
    /\ GatherReturn(scraper,
                    IF "user" \in loc.got THEN <<"display_name">> ELSE NoneVal,
                    IF "user" \in loc.got THEN loc.bio ELSE NoneVal)

\* RedditScraper.scrape
RedditStart ==
    /\ scraper = "RedditScraper"
    /\ GatherStart(scraper, RedditExtractUsername(surl))

\* _fetch_about, _fetch_posts, _fetch_comments
RedditFetch(b, o) ==
    /\ scraper = "RedditScraper"
    /\ SubFetch(b, o)

RedditReturn ==
    /\ scraper = "RedditScraper"
    /\ GatherReturn(scraper, loc.id,
                    IF "about" \in loc.got THEN loc.bio ELSE NoneVal)

-----------------------------------------------------------------------------
(* GitLabScraper: user discovery by probing *)

\* str.lower() and str.upper() on the atoms a username is made of
LowerAtom(a) ==
    CASE a = "GitHub" -> "github"
      [] a \in {"octocat", "github", "1", "."} -> a

UpperAtom(a) ==
    CASE a = "octocat" -> "OCTOCAT"
      [] a \in {"github", "GitHub"} -> "GITHUB"
      [] a \in {"1", "."} -> a

Lower(s) == [k \in 1..Len(s) |-> LowerAtom(s[k])]

Upper(s) == [k \in 1..Len(s) |-> UpperAtom(s[k])]

\* common_names = [username, username.lower(), username.upper(), "dotfiles", "config"]
CommonNames(username) ==
    <<username, Lower(username), Upper(username), <<"dotfiles">>, <<"config">>>>

\* what a project request can answer: a project in the user's own namespace
\* whose avatar_url carries the numeric id ("match_id"), is a string without
\* it ("match_noid") or is JSON null ("match_null"), projects of other
\* namespaces only ("nomatch"), or a failure
DiscoveryOutcomes ==
    {"match_id", "match_noid", "match_null", "nomatch"} \cup UpstreamFailures

\* the namespace passes the test `kind == "user" and path == username`
Matches == {"match_id", "match_noid", "match_null"}

\* _extract_user_id_from_namespace returns: re.search on a None avatar_url
\* raises TypeError, which leaves the strategy through its except clause
Returns == {"match_id", "match_noid"}

\* ScrapedData(platform=..., username=username, source_url=url), lines 56-61
GitLabBare ==
    ScrapedData(PlatformName("GitLabScraper"), loc.id, NoneVal, <<>>, {}, surl)

\* return self._extract_user_id_from_namespace(namespace), namespace, followed
\* in scrape by `if not user_id or not user_data`; loc.keys keeps what
\* _fetch_user_id_and_data returned
GitLabFound(o) ==
    /\ loc' = [loc EXCEPT !.keys = o]
    /\ IF o = "match_id"
       THEN /\ spc' = "projects"
            /\ UNCHANGED srec
       ELSE Finish(GitLabBare)

\* return None, None (line 152), followed in scrape by lines 56-61
GitLabNotFound ==
    /\ loc' = [loc EXCEPT !.keys = "none"]
    /\ Finish(GitLabBare)

\* scrape, line 49
GitLabStart ==
    /\ scraper = "GitLabScraper" /\ spc = "start"
    /\ LET username == ExtractUsername(surl)
       IN IF username = NoneVal
          THEN /\ Finish(Raised("ValueError"))
               /\ UNCHANGED loc
          ELSE /\ loc' = [loc EXCEPT !.id = username, !.i = 1]
               /\ spc' = "probe"
               /\ UNCHANGED srec
    /\ UNCHANGED <<outsideScrape, scraper, surl, reqs>>

\* strategy 1: one pass of the loop over common_names; any exception of the
\* pass, the TypeError of a null avatar_url included, is `continue`
GitLabProbe(o) ==
    /\ scraper = "GitLabScraper" /\ spc = "probe"
    /\ o \in DiscoveryOutcomes
    /\ reqs' = Append(reqs, Req(<<"projects/", loc.id, CommonNames(loc.id)[loc.i]>>,
                                TRUE, o))
    /\ IF o \in Returns
       THEN GitLabFound(o)
       ELSE /\ loc' = [loc EXCEPT !.i = @ + 1]
            /\ spc' = IF loc.i < Len(CommonNames(loc.id)) THEN "probe" ELSE "search"
            /\ UNCHANGED srec
    /\ UNCHANGED <<outsideScrape, scraper, surl>>

\* strategy 2: the keyword search, in its own try/except: pass
GitLabSearch(o) ==
    /\ scraper = "GitLabScraper" /\ spc = "search"
    /\ o \in DiscoveryOutcomes
    /\ reqs' = Append(reqs, Req(<<"projects?search", loc.id>>, TRUE, o))
    /\ IF o \in Returns
       THEN GitLabFound(o)
       ELSE spc' = "top" /\ UNCHANGED <<srec, loc>>
    /\ UNCHANGED <<outsideScrape, scraper, surl>>

\* strategy 3 without the outer try/except: a failed scan leaves scrape
GitLabTopUnguarded(o) ==
    /\ scraper = "GitLabScraper" /\ spc = "top"
    /\ o \in DiscoveryOutcomes
    /\ reqs' = Append(reqs, Req(<<"projects?order_by=star_count">>, TRUE, o))
    /\ IF o \in Returns
       THEN GitLabFound(o)
       ELSE IF o = "nomatch"
            THEN GitLabNotFound
            ELSE /\ loc' = [loc EXCEPT !.keys = "none"]
                 /\ Finish(Raised(IF o = "match_null" THEN "TypeError" ELSE FetchExc(o)))
    /\ UNCHANGED <<outsideScrape, scraper, surl>>

\* strategy 3: the top-starred scan, under the outer try only
GitLabTop(o) ==
    /\ scraper = "GitLabScraper" /\ spc = "top"
    /\ o \in DiscoveryOutcomes
    /\ reqs' = Append(reqs, Req(<<"projects?order_by=star_count">>, TRUE, o))
    /\ IF o \in Returns
       THEN GitLabFound(o)
       ELSE GitLabNotFound
    /\ UNCHANGED <<outsideScrape, scraper, surl>>

\* _fetch_projects and the rest of scrape
GitLabProjects(o) ==
    /\ scraper = "GitLabScraper" /\ spc = "projects"
    /\ o \in {"ok"} \cup UpstreamFailures
    /\ reqs' = Append(reqs, Req(<<"users/projects", loc.id>>, TRUE, o))
    /\ Finish(ScrapedData(PlatformName(scraper), loc.id, NoneVal,
                          <<Item("profile", "name")>>
                             \o (IF o = "ok" THEN <<Item("project", "name")>> ELSE <<>>),
                          {"user", "projects"}, surl))
    /\ UNCHANGED <<outsideScrape, scraper, surl, loc>>

-----------------------------------------------------------------------------
(* ZhihuScraper and WeiboScraper: an API first, a second source after *)

\* the atoms a [^/?#]+ group may run over
TokenAtoms == Words \cup Digits \cup {":", ".", "@", "=", "["}

\* zhihu._extract_url_token: re.search(r"zhihu\.com/people/([^/?#]+)", url)
ExtractUrlToken(u) ==
    SearchAfter(u, <<"zhihu", ".", "com", "/", "people", "/">>, TokenAtoms)

\* what _parse_api_response makes of a member payload
ZhihuItems == <<Item("profile", "headline"), Item("stats", "followers")>>

\* ZhihuScraper.scrape up to the end of the API try: "error" is a JSON answer
\* with an "error" key; a successful API answer ends scrape
ZhihuApi(o) ==
    /\ scraper = "ZhihuScraper" /\ spc = "start"
    /\ o \in {"ok", "error"} \cup UpstreamFailures
    /\ LET url_token == ExtractUrlToken(surl)
       IN IF url_token = NoneVal
          THEN /\ Finish(ScrapedData(PlatformName(scraper), NoneVal, NoneVal, <<>>,
                                     {"error"}, surl))
               /\ UNCHANGED <<reqs, loc>>
          ELSE /\ reqs' = Append(reqs, Req(<<"api/v4/members", url_token>>, TRUE, o))
               /\ loc' = [loc EXCEPT !.id = url_token]
               /\ IF o = "ok"
                  THEN Finish(ScrapedData(PlatformName(scraper), <<"name">>,
                                          <<"description">>, ZhihuItems, {"api"}, surl))
                  ELSE spc' = "html" /\ UNCHANGED srec
    /\ UNCHANGED <<outsideScrape, scraper, surl>>

\* if not api_success: the profile page; "nouser" is a page whose embedded
\* data does not hold the user, "malformed" a page without embedded data
ZhihuHtml(o) ==
    /\ scraper = "ZhihuScraper" /\ spc = "html"
    /\ o \in {"ok", "nouser"} \cup UpstreamFailures
    /\ reqs' = Append(reqs, Req(<<"people", loc.id>>, TRUE, o))
    /\ Finish(CASE o = "ok" ->
                     ScrapedData(PlatformName(scraper), <<"name">>, <<"description">>,
                                 ZhihuItems, {"html_embedded"}, surl)
                [] o = "nouser" ->
                     ScrapedData(PlatformName(scraper), loc.id, NoneVal, <<>>,
                                 {"html_embedded"}, surl)
                [] o \in UpstreamFailures ->
                     ScrapedData(PlatformName(scraper), loc.id, NoneVal, <<>>, {}, surl))
    /\ UNCHANGED <<outsideScrape, scraper, surl, loc>>

\* weibo._extract_uid: re.search(r"weibo\.com/(?:u/)?(\d+)", url), then
\* re.search(r"weibo\.com/([a-zA-Z0-9_-]+)", url)
ExtractUid(u) ==
    LET lit == <<"weibo", ".", "com", "/">>
        num == SearchAfter(u, lit, Digits)
        unm == SearchAfter(u, lit \o <<"u", "/">>, Digits)
        P(l) == {i \in 1..(Len(u) - Len(l) + 1) :
                    /\ SubSeq(u, i, i + Len(l) - 1) = l
                    /\ Run(u, i + Len(l), Digits) # <<>>}
        first(S) == CHOOSE i \in S : \A j \in S : i <= j
    IN IF num # NoneVal /\ (unm = NoneVal \/ first(P(lit)) < first(P(lit \o <<"u", "/">>)))
       THEN num
       ELSE IF unm # NoneVal THEN unm
       ELSE SearchAfter(u, lit, AlnumAtoms)

\* what _parse_mobile_api / _parse_ajax_api make of a userInfo payload
WeiboItems == <<Item("profile", "avatar"), Item("stats", "followers")>>

\* if not username and not items: raw["message"] = ...
WeiboRecord(l) ==
    ScrapedData(PlatformName("WeiboScraper"), l.username, l.bio, l.items,
                IF l.username = NoneVal /\ l.items = <<>>
                THEN l.raw \cup {"message"} ELSE l.raw,
                surl)

\* WeiboScraper.scrape up to the end of the mobile try: "ok" is ok == 1 with
\* a screen_name, "noname" ok == 1 without one, "notok" any other JSON
WeiboMobile(o) ==
    /\ scraper = "WeiboScraper" /\ spc = "start"
    /\ o \in {"ok", "noname", "notok"} \cup UpstreamFailures
    /\ LET uid == ExtractUid(surl)
           l   == CASE o = "ok" ->
                         [loc EXCEPT !.id = uid, !.username = <<"screen_name">>,
                                     !.bio = <<"description">>, !.items = WeiboItems,
                                     !.raw = {"mobile_api"}]
                    [] o = "noname" ->
                         [loc EXCEPT !.id = uid, !.items = WeiboItems,
                                     !.raw = {"mobile_api"}]
                    [] o = "notok" -> [loc EXCEPT !.id = uid]
                    [] o \in UpstreamFailures ->
                         [loc EXCEPT !.id = uid, !.raw = {"mobile_api_error"}]
       IN IF uid = NoneVal
          THEN /\ Finish(ScrapedData(PlatformName(scraper), NoneVal, NoneVal, <<>>,
                                     {"error"}, surl))
               /\ UNCHANGED <<reqs, loc>>
          ELSE /\ reqs' = Append(reqs, Req(<<"m.weibo.cn/api/container/getIndex", uid>>,
                                           TRUE, o))
               /\ loc' = l
               /\ IF l.username # NoneVal
                  THEN Finish(WeiboRecord(l))
                  ELSE spc' = "ajax" /\ UNCHANGED srec
    /\ UNCHANGED <<outsideScrape, scraper, surl>>

\* if not username: the ajax profile endpoint
WeiboAjax(o) ==
    /\ scraper = "WeiboScraper" /\ spc = "ajax"
    /\ o \in {"ok", "noname", "notok"} \cup UpstreamFailures
    /\ reqs' = Append(reqs, Req(<<"weibo.com/ajax/profile/info", loc.id>>, TRUE, o))
    /\ LET l == CASE o = "ok" ->
                       [loc EXCEPT !.username = <<"screen_name">>,
                                   !.bio = <<"description">>,
                                   !.items = @ \o WeiboItems,
                                   !.raw = @ \cup {"ajax_api"}]
                  [] o = "noname" ->
                       [loc EXCEPT !.items = @ \o WeiboItems,
                                   !.raw = @ \cup {"ajax_api"}]
                  [] o \in {"notok"} \cup UpstreamFailures ->
                       [loc EXCEPT !.raw = @ \cup {"ajax_api_error"}]
       IN /\ loc' = l
          /\ Finish(WeiboRecord(l))
    /\ UNCHANGED <<outsideScrape, scraper, surl>>

-----------------------------------------------------------------------------
(* Router: _build_router and LinkRouter.resolve *)

InitRouter ==
    /\ SynthIdle /\ OutputIdle /\ CollectIdle
    /\ PrivacyIdle
    /\ missing \in {"none", "trafilatura", "httpx"}
    /\ modIdx = 0
    /\ scrapers = <<>>
    /\ url \in Urls
    /\ resolved = "-"
    /\ ScrapeIdle
    /\ RunIdle
    /\ SignIdle

\* get_all_scrapers / _build_router: the next module is imported and its
\* scraper registered; an ImportError skips the module
Register ==
    /\ modIdx < Len(ScraperModules)
    /\ modIdx' = modIdx + 1
    /\ scrapers' = IF missing \in ModuleImports(ScraperModules[modIdx + 1])
                   THEN scrapers
                   ELSE Append(scrapers, ScraperModules[modIdx + 1])
    /\ UNCHANGED <<missing, url, resolved, outsideRouter>>

\* LinkRouter.resolve(url), on the router _build_router has returned
Resolve ==
    /\ modIdx = Len(ScraperModules)
    /\ resolved' = RouterResolve(scrapers, url)
    /\ UNCHANGED <<missing, modIdx, scrapers, url, outsideRouter>>

NextRouter ==
    \/ Register
    \/ Resolve

SpecRouter == InitRouter /\ [][NextRouter]_vars


-----------------------------------------------------------------------------
(* One scrape: scraper.scrape(url, config) on the scraper the router gives *)

\* the urls the scrapes are run on, each with and without https://
ScrapeBodies ==
    {<<"github", ".", "com", "/", "octocat">>,
     <<"github", ".", "com", "/">>,
     <<"gitlab", ".", "com", "/", "octocat">>,
     <<"gitlab", ".", "com", "/", "GitHub">>,
     <<"gitlab", ".", "com">>,
     <<"space", ".", "bilibili", ".", "com", "/", "1">>,
     <<"www", ".", "bilibili", ".", "com", "/", "video", "/", "1">>,
     <<"steamcommunity", ".", "com", "/", "id", "/", "octocat", "/">>,
     <<"store", ".", "steampowered", ".", "com", "/", "id", "/", "octocat">>,
     <<"stackoverflow", ".", "com", "/", "users", "/", "1", "/", "octocat">>,
     <<"stackoverflow", ".", "com", "/", "octocat">>,
     <<"dev", ".", "to", "/", "octocat">>,
     <<"medium", ".", "com", "/", "@", "octocat">>,
     <<"octocat", ".", "medium", ".", "com">>,
     <<"www", ".", "reddit", ".", "com", "/", "user", "/", "octocat">>,
     <<"www", ".", "reddit", ".", "com", "/", "octocat">>,
     <<"www", ".", "zhihu", ".", "com", "/", "people", "/", "octocat">>,
     <<"www", ".", "zhihu", ".", "com", "/", "octocat">>,
     <<"www", ".", "douban", ".", "com", "/", "people", "/", "octocat">>,
     <<"example", ".", "com", "/", "www", ".", "douban", ".", "com", "/", "people", "/", "1">>,
     <<"weibo", ".", "com", "/", "u", "/", "1">>,
     <<"weibo", ".", "com", "/", "octocat">>,
     <<"weibo", ".", "com", "/", "?", "id", "=", "1">>,
     <<"scholar", ".", "google", ".", "com", "/", "citations", "?", "user", "=", "1">>,
     <<"scholar", ".", "google", ".", "com", "/", "citations">>,
     <<"www", ".", "xiaohongshu", ".", "com", "/", "user", "/", "profile", "/", "1">>,
     <<"xhslink", ".", "com", "/", "octocat">>,
     <<"www", ".", "example", ".", "com", "/", "octocat">>,
     <<"example", ".", "com", ":", "1", "/", "octocat">>}

ScrapeUrls == {pre \o b : pre \in {<<>>, HttpsPrefix}, b \in ScrapeBodies}

\* the router as _build_router returns it when every import succeeds
RouterBuilt ==
    /\ missing = "none"
    /\ modIdx = Len(ScraperModules)
    /\ scrapers = ScraperModules

\* scraper = router.resolve(url), then scraper.scrape(url, scraper_config)
InitScrape ==
    /\ SynthIdle /\ OutputIdle /\ CollectIdle
    /\ PrivacyIdle
    /\ RouterBuilt
    /\ url \in ScrapeUrls
    /\ resolved = RouterResolve(scrapers, url)
    /\ scraper = resolved
    /\ surl = url
    /\ spc = "start"
    /\ reqs = <<>>
    /\ loc = Loc0
    /\ srec = NoResult
    /\ RunIdle
    /\ SignIdle

NextScrape ==
    \/ BiliStart
    \/ \E o \in {"ok", "http_error", "timeout"} : BiliInitRoot(o)
    \/ \E o \in {"ok"} \cup UpstreamFailures : BiliInitSpi(o)
    \/ \E o \in {"ok", "nonzero"} \cup UpstreamFailures : BiliCard(o)
    \/ \E o \in {"ok", "nonzero"} \cup UpstreamFailures : BiliStat(o)
    \/ \E o \in {"ok", "nokeys", "shortkeys"} \cup UpstreamFailures : BiliNav(o)
    \/ \E o \in VideoPayloads \cup {"nonzero", "badshape"} \cup UpstreamFailures :
          BiliSigned(o)
    \/ \E o \in VideoPayloads \cup {"nonzero", "badshape"} \cup UpstreamFailures :
          BiliFallback(o)
    \/ BiliReturn
    \/ \E o \in {"ok", "empty"} \cup UpstreamFailures : DevtoScrape(o)
    \/ \E o \in {"ok", "nochannel"} \cup UpstreamFailures : MediumScrape(o)
    \/ \E o \in {"ok", "private"} \cup UpstreamFailures : SteamScrape(o)
    \/ \E o \in {"ok"} \cup UpstreamFailures : DoubanScrape(o)
    \/ \E o \in {"ok"} \cup UpstreamFailures : XhsScrape(o)
    \/ \E o \in {"ok", "unsupported"} \cup UpstreamFailures : GenericScrape(o)
    \/ ScholarStart
    \/ \E o \in {"ok", "http_error", "malformed"} : ScholarDone(o)
    \/ GitHubStart
    \/ \E b \in {"user", "repos", "orgs"}, o \in {"ok"} \cup UpstreamFailures :
           GitHubFetch(b, o)
    \/ GitHubReturn
    \/ StackOverflowStart
    \/ \E b \in {"user", "tags", "answers"}, o \in {"ok"} \cup UpstreamFailures :
           StackOverflowFetch(b, o)
    \/ StackOverflowReturn
    \/ RedditStart
    \/ \E b \in {"about", "posts", "comments"}, o \in {"ok"} \cup UpstreamFailures :
           RedditFetch(b, o)
    \/ RedditReturn
    \/ GitLabStart
    \/ \E o \in DiscoveryOutcomes : GitLabProbe(o)
    \/ \E o \in DiscoveryOutcomes : GitLabSearch(o)
    \/ \E o \in DiscoveryOutcomes : GitLabTop(o)
    \/ \E o \in {"ok"} \cup UpstreamFailures : GitLabProjects(o)
    \/ \E o \in {"ok", "error"} \cup UpstreamFailures : ZhihuApi(o)
    \/ \E o \in {"ok", "nouser"} \cup UpstreamFailures : ZhihuHtml(o)
    \/ \E o \in {"ok", "noname", "notok"} \cup UpstreamFailures : WeiboMobile(o)
    \/ \E o \in {"ok", "noname", "notok"} \cup UpstreamFailures : WeiboAjax(o)

SpecScrape == InitScrape /\ [][NextScrape]_vars

-----------------------------------------------------------------------------
(* The orchestrator: _run(links, config) *)

\* the most links a batch holds
MaxUrls == 3

\* the links batches are made of: a scrape that always returns, one that
\* returns or raises with the upstream, one that always raises, and a link
\* the router raises on
BatchUrls ==
    {<<"github", ".", "com", "/", "octocat">>,
     <<"dev", ".", "to", "/", "octocat">>,
     <<"github", ".", "com", "/">>,
     <<"https", ":", "/", "/", "[">>}

Batches == UNION {[1..n -> BatchUrls] : n \in 0..MaxUrls}

\* How scraper c's scrape(u, config) can end, from its code: "raise" where an
\* exception leaves scrape (no identifier in the url, or a request awaited
\* outside any try), "record" where it returns
ScrapeOutcomes(c, u) ==
    CASE c \in {"GitHubScraper", "GitLabScraper"} ->
             IF ExtractUsername(u) = NoneVal THEN {"raise"} ELSE {"record"}
      [] c = "StackOverflowScraper" ->
             IF SoExtractUserId(u) = NoneVal THEN {"raise"} ELSE {"record"}
      [] c = "RedditScraper" ->
             IF RedditExtractUsername(u) = NoneVal THEN {"raise"} ELSE {"record"}
      [] c = "DoubanScraper" ->
             IF DoubanExtractUserId(u) = NoneVal THEN {"raise"} ELSE {"record"}
      [] c = "GoogleScholarScraper" ->
             IF ExtractAuthorId(u) = NoneVal THEN {"raise"} ELSE {"record"}
      [] c = "BilibiliScraper" ->
             IF ExtractMid(u) = NoneVal THEN {"record"} ELSE {"record", "raise"}
      [] c \in {"DevtoScraper", "MediumScraper", "SteamScraper"} -> {"record", "raise"}
      [] c \in {"ZhihuScraper", "WeiboScraper", "XiaohongshuScraper", "GenericScraper"} ->
             {"record"}

\* tasks.append(scraper.scrape(url, scraper_config)): a coroutine object,
\* not yet running
Task(c, u) == [scraper |-> c, url |-> u, st |-> "created"]

Init ==
    /\ SynthIdle /\ OutputIdle /\ CollectIdle
    /\ PrivacyIdle
    /\ RouterBuilt
    /\ url = <<>>
    /\ resolved = "-"
    /\ ScrapeIdle
    /\ SignIdle
    /\ links \in Batches
    /\ rpc = "resolve"
    /\ tasks = <<>>
    /\ queue = <<>>
    /\ taken = 0
    /\ results = <<>>

\* one pass of `for url in links`: router.resolve(url) is outside any try,
\* so what it raises leaves _run
ResolveNext ==
    /\ rpc = "resolve"
    /\ Len(tasks) < Len(links)
    /\ url' = links[Len(tasks) + 1]
    /\ resolved' = RouterResolve(scrapers, url')
    /\ IF resolved' = "ValueError"
       THEN /\ rpc' = "raised"
            /\ UNCHANGED tasks
       ELSE /\ tasks' = Append(tasks, Task(resolved', url'))
            /\ UNCHANGED rpc
    /\ UNCHANGED <<missing, modIdx, scrapers, links, queue, taken, results, outsideRun>>

\* as_completed with only the first coroutine scheduled
StartFirstOnly ==
    /\ rpc = "resolve"
    /\ Len(tasks) = Len(links)
    /\ tasks' = [i \in 1..Len(tasks) |->
                    IF i = 1 THEN [tasks[i] EXCEPT !.st = "running"] ELSE tasks[i]]
    /\ rpc' = "collect"
    /\ UNCHANGED <<routerVars, links, queue, taken, results, outsideRun>>

\* asyncio.as_completed(tasks): every coroutine is wrapped in a task and
\* scheduled, before the first await of the loop
StartAll ==
    /\ rpc = "resolve"
    /\ Len(tasks) = Len(links)
    /\ tasks' = [i \in 1..Len(tasks) |-> [tasks[i] EXCEPT !.st = "running"]]
    /\ rpc' = "collect"
    /\ UNCHANGED <<routerVars, links, queue, taken, results, outsideRun>>

\* the scrape of task i ends, returning a record or raising; as_completed
\* puts it on its queue of done tasks
TaskFinish(i, out) ==
    /\ rpc = "collect"
    /\ i \in 1..Len(tasks)
    /\ tasks[i].st = "running"
    /\ out \in ScrapeOutcomes(tasks[i].scraper, tasks[i].url)
    /\ tasks' = [tasks EXCEPT ![i].st = out]
    /\ queue' = Append(queue, i)
    /\ UNCHANGED <<routerVars, links, rpc, taken, results, outsideRun>>

\* the loop with an exception of the awaited task let out of _run
CollectUnguarded ==
    /\ rpc = "collect"
    /\ taken < Len(queue)
    /\ taken' = taken + 1
    /\ IF tasks[queue[taken + 1]].st = "record"
       THEN results' = Append(results, queue[taken + 1]) /\ UNCHANGED rpc
       ELSE rpc' = "raised" /\ UNCHANGED results
    /\ UNCHANGED <<routerVars, links, tasks, queue, outsideRun>>

\* the loop awaiting the tasks in the order of the list tasks
CollectInInputOrder ==
    /\ rpc = "collect"
    /\ taken < Len(tasks)
    /\ tasks[taken + 1].st \in {"record", "raise"}
    /\ taken' = taken + 1
    /\ results' = IF tasks[taken + 1].st = "record"
                  THEN Append(results, taken + 1)
                  ELSE results
    /\ UNCHANGED <<routerVars, links, rpc, tasks, queue, outsideRun>>

\* one pass of `for coro in asyncio.as_completed(tasks)`: the await gives the
\* next task to have completed; its record is appended, its exception is
\* caught and echoed
Collect ==
    /\ rpc = "collect"
    /\ taken < Len(queue)
    /\ taken' = taken + 1
    /\ results' = IF tasks[queue[taken + 1]].st = "record"
                  THEN Append(results, queue[taken + 1])
                  ELSE results
    /\ UNCHANGED <<routerVars, links, rpc, tasks, queue, outsideRun>>

\* return results: the loop has awaited every task
Return ==
    /\ rpc = "collect"
    /\ taken = Len(tasks)
    /\ rpc' = "done"
    /\ UNCHANGED <<routerVars, links, tasks, queue, taken, results, outsideRun>>

Next ==
    \/ ResolveNext
    \/ StartAll
    \/ \E i \in 1..MaxUrls, out \in {"record", "raise"} : TaskFinish(i, out)
    \/ Collect
    \/ Return

Spec == Init /\ [][Next]_vars

-----------------------------------------------------------------------------
(* _run on a single link, with the link's scrape run in full *)

\* the single links: GitHub profiles, a GitHub link without a username, a
\* Dev.to profile, a page of no known platform, a link urlparse rejects
OneUrls ==
    {<<"github", ".", "com", "/", "octocat">>,
     HttpsPrefix \o <<"github", ".", "com", "/", "octocat">>,
     <<"github", ".", "com", "/">>,
     <<"dev", ".", "to", "/", "octocat">>,
     HttpsPrefix \o <<"www", ".", "example", ".", "com", "/", "octocat">>,
     <<"https", ":", "/", "/", "[">>}

InitOne ==
    /\ SynthIdle /\ OutputIdle /\ CollectIdle
    /\ PrivacyIdle
    /\ RouterBuilt
    /\ url = <<>>
    /\ resolved = "-"
    /\ ScrapeIdle
    /\ SignIdle
    /\ links \in {<<u>> : u \in OneUrls}
    /\ rpc = "resolve"
    /\ tasks = <<>>
    /\ queue = <<>>
    /\ taken = 0
    /\ results = <<>>

\* the event loop runs the task: scraper.scrape(url, scraper_config) starts
ScrapeBegin ==
    /\ rpc = "collect"
    /\ spc = "idle"
    /\ tasks[1].st = "running"
    /\ scraper' = tasks[1].scraper
    /\ surl' = tasks[1].url
    /\ spc' = "start"
    /\ UNCHANGED <<reqs, loc, srec, outsideScrape>>

\* the coroutine has returned or raised: the task is done, with srec as
\* its result or exception
ScrapeEnd ==
    /\ rpc = "collect"
    /\ spc = "done"
    /\ tasks[1].st = "running"
    /\ tasks' = [tasks EXCEPT ![1].st = srec.kind]
    /\ queue' = Append(queue, 1)
    /\ UNCHANGED <<routerVars, links, rpc, taken, results, outsideRun>>

NextOne ==
    \/ ResolveNext
    \/ StartAll
    \/ ScrapeBegin
    \/ GitHubStart
    \/ \E b \in {"user", "repos", "orgs"}, o \in {"ok"} \cup UpstreamFailures :
           GitHubFetch(b, o)
    \/ GitHubReturn
    \/ \E o \in {"ok", "empty"} \cup UpstreamFailures : DevtoScrape(o)
    \/ \E o \in {"ok", "unsupported"} \cup UpstreamFailures : GenericScrape(o)
    \/ ScrapeEnd
    \/ Collect
    \/ Return

SpecOne == InitOne /\ [][NextOne]_vars

-----------------------------------------------------------------------------
(* WBI signing: _get_mixin_key and _sign_wbi *)

\* _MIXIN_KEY_ENC_TAB
MixinKeyEncTab ==
    <<46, 47, 18, 2, 53, 8, 23, 32, 15, 50, 10, 31, 58, 3, 45, 35,
      27, 43, 5, 49, 33, 9, 42, 19, 29, 28, 14, 39, 12, 38, 41, 13,
      37, 48, 7, 16, 24, 55, 40, 61, 26, 17, 0, 1, 60, 51, 30, 4,
      22, 25, 54, 21, 56, 59, 6, 63, 57, 62, 11, 36, 20, 34, 44, 52>>

\* the [:32] of _get_mixin_key
MixinKeyLen == 32

\* _get_mixin_key(orig): the generator reads orig at every table entry
\* before the slice, so an orig shorter than the table raises IndexError
GetMixinKey(orig) ==
    IF \E k \in 1..Len(MixinKeyEncTab) : MixinKeyEncTab[k] + 1 > Len(orig)
    THEN <<"IndexError">>
    ELSE [k \in 1..MixinKeyLen |-> orig[MixinKeyEncTab[k] + 1]]

\* a parameter value: an int or a str, with its text as str(v) gives it
IntVal(text) == [t |-> "int", s |-> text]

StrVal(text) == [t |-> "str", s |-> text]

\* str(v)
Str(v) == v.s

\* re.sub(r"[!'()*]", "", text)
Strip(text) == SelectSeq(text, LAMBDA ch : ch \notin {"!", "'", "(", ")", "*"})

\* urllib.parse.quote_plus on one character: letters and digits stay, the
\* others used here become their %XX escape
QuoteChar(ch) ==
    CASE ch = "&" -> <<"%", "2", "6">>
      [] ch = "=" -> <<"%", "3", "D">>
      [] ch = "!" -> <<"%", "2", "1">>
      [] ch = "'" -> <<"%", "2", "7">>
      [] ch = "(" -> <<"%", "2", "8">>
      [] ch = ")" -> <<"%", "2", "9">>
      [] ch = "*" -> <<"%", "2", "A">>
      [] OTHER -> <<ch>>

RECURSIVE QuotePlus(_)
QuotePlus(text) ==
    IF text = <<>> THEN <<>> ELSE QuoteChar(Head(text)) \o QuotePlus(Tail(text))

\* urllib.parse.urlencode(items): k=v pairs joined with "&"
RECURSIVE UrlEncode(_)
UrlEncode(items) ==
    IF items = <<>> THEN <<>>
    ELSE <<items[1][1], "=">> \o QuotePlus(items[1][2])
         \o (IF Len(items) > 1 THEN <<"&">> ELSE <<>>)
         \o UrlEncode(Tail(items))

\* the place of a key in the order of str comparison
KeyRank(k) ==
    CASE k = "mid" -> 1
      [] k = "pn" -> 2
      [] k = "ps" -> 3
      [] k = "wts" -> 4

\* params[k] = v on a dict, which keeps insertion order
SetItem(d, k, v) ==
    IF \E i \in 1..Len(d) : d[i][1] = k
    THEN [i \in 1..Len(d) |-> IF d[i][1] = k THEN <<k, v>> ELSE d[i]]
    ELSE Append(d, <<k, v>>)

\* the items of a dict in insertion order
UnsortedItems(d) == d

\* sorted(params.items()): the items by key
SortedItems(d) ==
    LET rank(i) == Cardinality({j \in 1..Len(d) : KeyRank(d[j][1]) <= KeyRank(d[i][1])})
    IN [r \in 1..Len(d) |-> d[CHOOSE i \in 1..Len(d) : rank(i) = r]]

\* {k: re.sub(r"[!'()*]", "", str(v)) for k, v in params.items()}
StrippedItems(items) ==
    [i \in 1..Len(items) |-> <<items[i][1], Strip(Str(items[i][2]))>>]

\* hashlib.md5(text).hexdigest(), taken as free of collisions
Md5(text) == <<"md5">> \o text

\* what a call gives: the signed dict, or the exception
Signed(items, w_rid) == [st |-> "ok", params |-> items, w_rid |-> w_rid]

SignRaised == [st |-> "IndexError", params |-> <<>>, w_rid |-> <<>>]

NotSigned == [st |-> "none", params |-> <<>>, w_rid |-> <<>>]

\* _sign_wbi(params, img_key, sub_key) with round(time.time()) = ts, after
\* the mixin key is known
SignWith(params, mixin_key, ts) ==
    LET items == StrippedItems(SortedItems(SetItem(params, "wts", IntVal(ts))))
    IN Signed(items, Md5(UrlEncode(items) \o mixin_key))

\* the texts parameter values are made of
ParamTexts ==
    {<<>>, <<"!">>, <<"a">>, <<"a", "!">>, <<"(", "a", ")">>,
     <<"a", "&", "b">>, <<"a", "=">>, <<"2", "0">>, <<"1">>}

ParamValues ==
    {StrVal(text) : text \in ParamTexts} \cup {IntVal(<<"2", "0">>), IntVal(<<"1">>)}

\* the dicts handed to _sign_wbi: mid and ps in either insertion order, with
\* or without a wts of the caller's
ParamDicts ==
    LET base == {<<<<"mid", IntVal(<<"1">>)>>, <<"ps", v>>>> : v \in ParamValues}
                \cup {<<<<"ps", v>>, <<"mid", IntVal(<<"1">>)>>>> : v \in ParamValues}
    IN base \cup {Append(d, <<"wts", StrVal(<<"1">>)>>) : d \in base}

\* keys as the nav endpoint gives them, and a pair too short for the table
LongKey(ch) == [k \in 1..MixinKeyLen |-> IF k % 2 = 0 THEN ch ELSE "k"]

KeyPairs ==
    {<<LongKey("a"), LongKey("b")>>, <<LongKey("c"), LongKey("b")>>,
     <<<<"a">>, <<"b">>>>}

Timestamps == {<<"1", "7">>, <<"1", "8">>}

DictKeys(d) == {d[i][1] : i \in 1..Len(d)}

InitSign ==
    /\ SynthIdle /\ OutputIdle /\ CollectIdle
    /\ PrivacyIdle
    /\ RouterBuilt
    /\ url = <<>>
    /\ resolved = "-"
    /\ ScrapeIdle
    /\ RunIdle
    /\ \E kp \in KeyPairs : img_key = kp[1] /\ sub_key = kp[2]
    /\ wts \in Timestamps
    /\ \E d1, d2 \in ParamDicts :
          /\ DictKeys(d1) \ {"wts"} = DictKeys(d2) \ {"wts"}
          /\ calls = <<[params |-> d1, out |-> NotSigned],
                       [params |-> d2, out |-> NotSigned]>>

\* one call of _sign_wbi: the caller's dict gets the wts entry, the result
\* is the signed dict
SignWbi(n) ==
    /\ n \in 1..Len(calls)
    /\ calls[n].out.st = "none"
    /\ LET mixin_key == GetMixinKey(img_key \o sub_key)
       IN calls' = [calls EXCEPT ![n] =
              IF mixin_key = <<"IndexError">>
              THEN [params |-> @.params, out |-> SignRaised]
              ELSE [params |-> SetItem(@.params, "wts", IntVal(wts)),
                    out |-> SignWith(@.params, mixin_key, wts)]]
    /\ UNCHANGED <<img_key, sub_key, wts, outsideSign>>

NextSign == \E n \in {1, 2} : SignWbi(n)

SpecSign == InitSign /\ [][NextSign]_vars

-----------------------------------------------------------------------------
(* utils/privacy.py: strip_sensitive, character by character *)

\* the character classes of the four patterns
DigitChars == {"0", "1", "2", "3", "4", "5", "6", "7", "8", "9"}

LetterChars == {"a", "b", "c", "h", "i", "x", "X", "R", "E", "D", "A", "C", "T"}

\* \w, as \b sees it
WordChars == LetterChars \cup DigitChars \cup {"_"}

\* [-.\s]
SepChars == {"-", ".", " "}

\* [a-zA-Z0-9_.+-], [a-zA-Z0-9-] and [a-zA-Z0-9-.]
EmailLocal == LetterChars \cup DigitChars \cup {"_", ".", "+", "-"}

EmailDomain == LetterChars \cup DigitChars \cup {"-"}

EmailTail == EmailDomain \cup {"."}

\* the character at position p of s is one of A
At(s, p, A) == p <= Len(s) /\ s[p] \in A

\* \d{n} matches at position p
DigitsAt(s, p, n) == p + n - 1 <= Len(s) /\ \A k \in p..(p + n - 1) : s[k] \in DigitChars

\* the position after the longest run of A characters from p on
RunEnd(s, p, A) == p + Len(Run(s, p, A))

\* \b holds before position p
IsWordAt(s, k) == k >= 1 /\ k <= Len(s) /\ s[k] \in WordChars

Boundary(s, p) == IsWordAt(s, p - 1) # IsWordAt(s, p)

\* The matchers give the position after the match the regex engine finds
\* from a start position, 0 when there is none.  The engine tries the
\* alternatives of every quantifier greedily, longest first, and backtracks
\* to the next one when the rest of the pattern fails: Or0(a, b) is "a, and
\* when that fails b".
Or0(a, b) == IF a # 0 THEN a ELSE b

\* email: [a-zA-Z0-9_.+-]+@[a-zA-Z0-9-]+\.[a-zA-Z0-9-.]+ ; the character
\* that must follow each run is outside the run's class, so only the longest
\* run can match
EmailTailEnd(s, p) == IF At(s, p, EmailTail) THEN RunEnd(s, p, EmailTail) ELSE 0

EmailDot(s, p) == IF At(s, p, {"."}) THEN EmailTailEnd(s, p + 1) ELSE 0

EmailDomainEnd(s, p) ==
    IF At(s, p, EmailDomain) THEN EmailDot(s, RunEnd(s, p, EmailDomain)) ELSE 0

EmailAt(s, p) == IF At(s, p, {"@"}) THEN EmailDomainEnd(s, p + 1) ELSE 0

EmailEnd(s, p) == IF At(s, p, EmailLocal) THEN EmailAt(s, RunEnd(s, p, EmailLocal)) ELSE 0

\* phone: (?:\+?\d{1,3}[-.\s]?)?\(?\d{2,4}\)?[-.\s]?\d{3,4}[-.\s]?\d{4},
\* from its last part to its first
Ph4(s, p) == IF DigitsAt(s, p, 4) THEN p + 4 ELSE 0

PhSep3(s, p) == Or0(IF At(s, p, SepChars) THEN Ph4(s, p + 1) ELSE 0, Ph4(s, p))

Ph3(s, p) ==
    Or0(IF DigitsAt(s, p, 4) THEN PhSep3(s, p + 4) ELSE 0,
        IF DigitsAt(s, p, 3) THEN PhSep3(s, p + 3) ELSE 0)

PhSep2(s, p) == Or0(IF At(s, p, SepChars) THEN Ph3(s, p + 1) ELSE 0, Ph3(s, p))

PhClose(s, p) == Or0(IF At(s, p, {")"}) THEN PhSep2(s, p + 1) ELSE 0, PhSep2(s, p))

Ph2(s, p) ==
    Or0(IF DigitsAt(s, p, 4) THEN PhClose(s, p + 4) ELSE 0,
        Or0(IF DigitsAt(s, p, 3) THEN PhClose(s, p + 3) ELSE 0,
            IF DigitsAt(s, p, 2) THEN PhClose(s, p + 2) ELSE 0))

PhOpen(s, p) == Or0(IF At(s, p, {"("}) THEN Ph2(s, p + 1) ELSE 0, Ph2(s, p))

PhSep1(s, p) == Or0(IF At(s, p, SepChars) THEN PhOpen(s, p + 1) ELSE 0, PhOpen(s, p))

Ph1(s, p) ==
    Or0(IF DigitsAt(s, p, 3) THEN PhSep1(s, p + 3) ELSE 0,
        Or0(IF DigitsAt(s, p, 2) THEN PhSep1(s, p + 2) ELSE 0,
            IF DigitsAt(s, p, 1) THEN PhSep1(s, p + 1) ELSE 0))

PhPlus(s, p) == Or0(IF At(s, p, {"+"}) THEN Ph1(s, p + 1) ELSE 0, Ph1(s, p))

PhoneEnd(s, p) == Or0(PhPlus(s, p), PhOpen(s, p))

\* id_card: \b\d{17}[\dXx]\b
IdCardEnd(s, p) ==
    IF /\ Boundary(s, p)
       /\ DigitsAt(s, p, 17)
       /\ At(s, p + 17, DigitChars \cup {"X", "x"})
       /\ Boundary(s, p + 18)
    THEN p + 18 ELSE 0

\* ip_address: \b\d{1,3}\.\d{1,3}\.\d{1,3}\.\d{1,3}\b ; IpPart matches the
\* last k octets
IpLast(s, p, n) == IF DigitsAt(s, p, n) /\ Boundary(s, p + n) THEN p + n ELSE 0

RECURSIVE IpPart(_, _, _)
IpOctet(s, p, k, n) ==
    IF DigitsAt(s, p, n) /\ At(s, p + n, {"."}) THEN IpPart(s, p + n + 1, k - 1) ELSE 0

IpPart(s, p, k) ==
    IF k = 1
    THEN Or0(IpLast(s, p, 3), Or0(IpLast(s, p, 2), IpLast(s, p, 1)))
    ELSE Or0(IpOctet(s, p, k, 3), Or0(IpOctet(s, p, k, 2), IpOctet(s, p, k, 1)))

IpEnd(s, p) == IF Boundary(s, p) THEN IpPart(s, p, 4) ELSE 0

\* _PATTERNS, in the order strip_sensitive applies them
Patterns == <<"email", "phone", "id_card", "ip_address">>

MatchEnd(name, s, p) ==
    CASE name = "email" -> EmailEnd(s, p)
      [] name = "phone" -> PhoneEnd(s, p)
      [] name = "id_card" -> IdCardEnd(s, p)
      [] name = "ip_address" -> IpEnd(s, p)

\* a replacement that keeps an address in the text
RedactedEcho == <<"[", "a", "@", "b", ".", "c", "]">>

\* "[REDACTED]"
Redacted == <<"[", "R", "E", "D", "A", "C", "T", "E", "D", "]">>

\* pattern.sub("[REDACTED]", s): the leftmost match is replaced and the scan
\* goes on after it; where nothing matches the character is kept
RECURSIVE SubFrom(_, _, _)
SubStep(name, s, p, e) ==
    IF e # 0 THEN Redacted \o SubFrom(name, s, e)
    ELSE <<s[p]>> \o SubFrom(name, s, p + 1)

SubFrom(name, s, p) ==
    IF p > Len(s) THEN <<>> ELSE SubStep(name, s, p, MatchEnd(name, s, p))

\* for _name, pattern in _PATTERNS: text = pattern.sub("[REDACTED]", text)
RECURSIVE ApplyFrom(_, _, _)
ApplyFrom(pats, k, t) ==
    IF k > Len(pats) THEN t ELSE ApplyFrom(pats, k + 1, SubFrom(pats[k], t, 1))

StripSensitive(t) == ApplyFrom(Patterns, 1, t)

\* the texts strip_sensitive is given: up to MaxChunks pieces, each a run of
\* digits, a letter, the middle of an address or a separator
MaxChunks == 4

Chunks ==
    {<<"1", "2", "3", "4">>, <<"1", "2", "3">>, <<"1", "2", ".">>, <<"1">>,
     <<"a">>, <<"@", "b", ".">>, <<"-">>}

RECURSIVE Flatten(_)
Flatten(cs) == IF cs = <<>> THEN <<>> ELSE Head(cs) \o Flatten(Tail(cs))

Texts == {Flatten(cs) : cs \in UNION {[1..n -> Chunks] : n \in 0..MaxChunks}}

InitPrivacy ==
    /\ SynthIdle /\ OutputIdle /\ CollectIdle
    /\ RouterBuilt
    /\ url = <<>>
    /\ resolved = "-"
    /\ ScrapeIdle
    /\ RunIdle
    /\ SignIdle
    /\ ptext \in Texts
    /\ ppc = "start"
    /\ once = <<>>
    /\ twice = <<>>

\* strip_sensitive(text)
StripFirst ==
    /\ ppc = "start"
    /\ once' = StripSensitive(ptext)
    /\ ppc' = "once"
    /\ UNCHANGED <<ptext, twice, outsidePrivacy>>

\* strip_sensitive applied to what the first call returned
StripSecond ==
    /\ ppc = "once"
    /\ twice' = StripSensitive(once)
    /\ ppc' = "twice"
    /\ UNCHANGED <<ptext, once, outsidePrivacy>>

NextPrivacy == StripFirst \/ StripSecond

SpecPrivacy == InitPrivacy /\ [][NextPrivacy]_vars

-----------------------------------------------------------------------------
(* whoareu: synthesize and the LLM call helper *)

\* the atoms of an LLM answer: a fence, a language tag, white space and text
\* (the fence atom stands for the three backquotes)
Fence == "<fence>"

NL == "\n"

WhiteSpace == {NL, " "}

\* str.strip(): leading and trailing white space removed
StrStrip(s) ==
    LET inked == {k \in 1..Len(s) : s[k] \notin WhiteSpace}
    IN IF inked = {} THEN <<>>
       ELSE SubSeq(s, CHOOSE a \in inked : \A k \in inked : a <= k,
                      CHOOSE b \in inked : \A k \in inked : k <= b)

\* the number of newlines among s[a..b]
Newlines(s, a, b) == Cardinality({k \in a..b : s[k] = NL})

\* _CODE_FENCE_RE.match on a stripped text t,
\* r"^\s*<fence>(?:markdown|md)?\s*\n(.*?)\n\s*<fence>\s*$" with re.DOTALL: t opens
\* with a fence, an optional tag and white space holding a newline, and ends
\* with white space holding a newline and a fence. The result is the end of
\* the opening (the position before the earliest start of group 1), 0 for no match
FenceOpenEnd(t) ==
    IF Len(t) < 2 \/ t[1] # Fence \/ t[Len(t)] # Fence THEN 0
    ELSE LET tag  == IF t[2] \in {"markdown", "md"} THEN 2 ELSE 1
             body == SubSeq(t, tag + 1, Len(t) - 1)
             lead == Len(Run(body, 1, WhiteSpace))
             ink  == {k \in 1..Len(body) : body[k] \notin WhiteSpace}
         IN IF ink = {}
            THEN IF Newlines(body, 1, Len(body)) >= 2 THEN tag ELSE 0
            ELSE LET last == CHOOSE b \in ink : \A k \in ink : k <= b
                 IN IF /\ Newlines(body, 1, lead) >= 1
                       /\ Newlines(body, last + 1, Len(body)) >= 1
                    THEN tag ELSE 0

\* _strip_code_fences, lines 42-47
StripCodeFences(content) ==
    LET t == StrStrip(content)
        e == FenceOpenEnd(t)
    IN IF e # 0 THEN StrStrip(SubSeq(t, e + 1, Len(t) - 1)) ELSE t

\* an answer wrapped in a fenced block with the language tag lang
Fenced(lang, body) == <<Fence>> \o lang \o <<NL>> \o body \o <<NL, Fence>>

\* the message contents an LLM answers with
Contents ==
    {<<"#", "A">>, <<" ", "#", "B", NL>>,
     Fenced(<<"markdown">>, <<"#", "A">>), Fenced(<<>>, <<"#", "B">>)}

\* what litellm.acompletion can give: a message content, a response with an
\* empty choices list, a response whose content is None, or an exception
LlmAnswers == Contents \cup {<<"<no choices>">>, <<"<None>">>, <<"<APIError>">>}

\* _llm_call, lines 163-186: the exception it leaves with, "-" when it returns
LlmCallExc(answer) ==
    CASE answer = <<"<APIError>">> -> "APIError"
      [] answer \in {<<"<no choices>">>, <<"<None>">>} -> "RuntimeError"
      [] OTHER -> "-"

\* the fields class GeneratedFiles declares (models.py, lines 37-41)
GeneratedFilesFields == {"identity_md", "soul_md"}

\* GeneratedFiles(**kwargs): pydantic keeps the declared fields and ignores
\* any other keyword
GeneratedFiles(kwargs) ==
    [kind |-> "files", fields |-> [f \in GeneratedFilesFields |-> kwargs[f]]]

\* one awaited _llm_call of synthesize: the request is logged with the file
\* it asks for and the generated texts its prompt quotes
LlmCall(file, quoted, answer) ==
    /\ llm_calls' = Append(llm_calls, [file |-> file, quoted |-> quoted,
                                       answer |-> answer])
    /\ IF LlmCallExc(answer) # "-"
       THEN /\ generated' = [kind |-> "raise", exc |-> LlmCallExc(answer)]
            /\ ypc' = "done"
       ELSE UNCHANGED generated

\* identity_md = await _generate_identity(spec, llm)
GenerateIdentity(answer) ==
    /\ ypc = "identity"
    /\ answer \in LlmAnswers
    /\ LlmCall("IDENTITY.md", <<>>, answer)
    /\ IF LlmCallExc(answer) = "-"
       THEN identity_md' = StripCodeFences(answer) /\ ypc' = "soul"
       ELSE UNCHANGED identity_md
    /\ UNCHANGED <<soul_md, agents_md, routerVars, scrapeVars, runVars, signVars,
                   privacyVars, outputVars, collectVars>>

\* soul_md = await _generate_soul(spec, identity_md, llm)
GenerateSoul(answer) ==
    /\ ypc = "soul"
    /\ answer \in LlmAnswers
    /\ LlmCall("SOUL.md", <<identity_md>>, answer)
    /\ IF LlmCallExc(answer) = "-"
       THEN soul_md' = StripCodeFences(answer) /\ ypc' = "agents"
       ELSE UNCHANGED soul_md
    /\ UNCHANGED <<identity_md, agents_md, routerVars, scrapeVars, runVars, signVars,
                   privacyVars, outputVars, collectVars>>

\* agents_md = await _generate_agents(spec, identity_md, soul_md, llm)
GenerateAgents(answer) ==
    /\ ypc = "agents"
    /\ answer \in LlmAnswers
    /\ LlmCall("AGENTS.md", <<identity_md, soul_md>>, answer)
    /\ IF LlmCallExc(answer) = "-"
       THEN agents_md' = StripCodeFences(answer) /\ ypc' = "return"
       ELSE UNCHANGED agents_md
    /\ UNCHANGED <<identity_md, soul_md, routerVars, scrapeVars, runVars, signVars,
                   privacyVars, outputVars, collectVars>>

\* return GeneratedFiles(identity_md=..., soul_md=..., agents_md=...)
SynthReturn ==
    /\ ypc = "return"
    /\ generated' = GeneratedFiles([identity_md |-> identity_md, soul_md |-> soul_md,
                                    agents_md |-> agents_md])
    /\ ypc' = "done"
    /\ UNCHANGED <<llm_calls, identity_md, soul_md, agents_md, routerVars, scrapeVars,
                   runVars, signVars, privacyVars, outputVars, collectVars>>

\* the fetch-and-normalize core is not running
CoreIdle ==
    /\ RouterBuilt
    /\ url = <<>>
    /\ resolved = "-"
    /\ ScrapeIdle
    /\ RunIdle
    /\ SignIdle
    /\ PrivacyIdle

\* synthesize(spec) has been called
InitSynth ==
    /\ CoreIdle /\ OutputIdle /\ CollectIdle
    /\ ypc = "identity"
    /\ llm_calls = <<>>
    /\ identity_md = <<>>
    /\ soul_md = <<>>
    /\ agents_md = <<>>
    /\ generated = <<>>

NextSynth ==
    \/ \E answer \in LlmAnswers : GenerateIdentity(answer)
    \/ \E answer \in LlmAnswers : GenerateSoul(answer)
    \/ \E answer \in LlmAnswers : GenerateAgents(answer)
    \/ SynthReturn

SpecSynth == InitSynth /\ [][NextSynth]_vars

-----------------------------------------------------------------------------
(* whoareu: write_files *)

\* _FILE_MAP, lines 12-16, in insertion order: file name and attribute
FILE_MAP ==
    <<<<"IDENTITY.md", "identity_md">>, <<"SOUL.md", "soul_md">>,
      <<"AGENTS.md", "agents_md">>>>

\* what the file system holds at a path that is not a file
Absent == <<"<absent>">>

Dir == <<"<dir>">>

\* the output_dir arguments, as path components
OutputDirs == {<<"out">>, <<"nested", "dir">>}

\* the paths the file system is looked at
DiskPaths ==
    UNION {{SubSeq(d, 1, k) : k \in 1..Len(d)} : d \in OutputDirs}
      \cup {Append(d, FILE_MAP[k][1]) : d \in OutputDirs, k \in 1..Len(FILE_MAP)}

\* the texts of the generated files
FileTexts == {<<"#", "A">>, <<"#", "B">>}

\* a file system: what exists lies in an existing directory
IsDisk(d) ==
    \A p \in DiskPaths :
        (Len(p) > 1 /\ d[p] # Absent) => d[SubSeq(p, 1, Len(p) - 1)] = Dir

\* the file systems write_files starts from: directories present or not,
\* files of an earlier run present or not
Disks ==
    {d \in [DiskPaths -> {Absent, Dir, <<"old">>}] :
        /\ IsDisk(d)
        /\ \A p \in DiskPaths :
              /\ d[p] = Dir => \E o \in OutputDirs : \E k \in 1..Len(o) : p = SubSeq(o, 1, k)
              /\ d[p] = <<"old">> => p[Len(p)] = "IDENTITY.md"}

\* out.mkdir(parents=True, exist_ok=True): output_dir and its missing parents
\* become directories
Mkdir ==
    /\ wpc = "mkdir"
    /\ disk' = [p \in DiskPaths |->
                   IF \E k \in 1..Len(output_dir) : p = SubSeq(output_dir, 1, k)
                   THEN Dir ELSE disk[p]]
    /\ wpc' = "loop"
    /\ UNCHANGED <<files, output_dir, written, wrote, routerVars, scrapeVars, runVars,
                   signVars, privacyVars, synthVars, collectVars>>

\* one pass of `for filename, attr in _FILE_MAP.items()`: getattr raises
\* AttributeError for an attribute the object does not have, write_text
\* replaces the file's text; after the last entry, return written
WriteLoop ==
    /\ wpc = "loop"
    /\ LET k == Len(written) + 1
       IN IF k > Len(FILE_MAP)
          THEN /\ wrote' = [kind |-> "paths", paths |-> written]
               /\ wpc' = "done"
               /\ UNCHANGED <<disk, written>>
          ELSE LET path == Append(output_dir, FILE_MAP[k][1])
                   attr == FILE_MAP[k][2]
               IN IF attr \notin DOMAIN files.fields
                  THEN /\ wrote' = [kind |-> "raise", exc |-> "AttributeError"]
                       /\ wpc' = "done"
                       /\ UNCHANGED <<disk, written>>
                  ELSE /\ disk' = [disk EXCEPT ![path] = files.fields[attr]]
                       /\ written' = Append(written, path)
                       /\ UNCHANGED <<wrote, wpc>>
    /\ UNCHANGED <<files, output_dir, routerVars, scrapeVars, runVars, signVars,
                   privacyVars, synthVars, collectVars>>

\* write_files(files, output_dir) has been called
InitOutput ==
    /\ CoreIdle /\ SynthIdle /\ CollectIdle
    /\ \E i, s \in FileTexts :
          files = GeneratedFiles([identity_md |-> i, soul_md |-> s])
    /\ output_dir \in OutputDirs
    /\ disk \in Disks
    /\ wpc = "mkdir"
    /\ written = <<>>
    /\ wrote = <<>>

NextOutput == Mkdir \/ WriteLoop

SpecOutput == InitOutput /\ [][NextOutput]_vars

-----------------------------------------------------------------------------
(* The interactive link collector and main's use of what it returns *)

\* the most links the collector is followed to
MaxLinks == 3

\* what follows "remove" on a line, and int() of it where int() returns
RemoveArgs == {"0", "1", "2", "3", "4", "-1", "-2", "-5", "x"}

IsIntText(a) == a # "x"

IntOf(a) ==
    CASE a = "0" -> 0 [] a = "1" -> 1 [] a = "2" -> 2 [] a = "3" -> 3
      [] a = "4" -> 4 [] a = "-1" -> 0 - 1 [] a = "-2" -> 0 - 2 [] a = "-5" -> 0 - 5

\* the lines typed at the prompt, after raw.strip(), as their words
UrlLines == {<<"https://a">>, <<"http://b">>}

Lines ==
    {<<>>, <<"list">>, <<"go">>, <<"GO">>, <<"generate">>, <<"quit">>, <<"exit">>,
     <<"q">>, <<"remove">>, <<"ftp://c">>, <<"remove", "1", "2">>}
      \cup UrlLines \cup {<<"remove", a>> : a \in RemoveArgs}

\* text.lower(), word by word
LowerWord(w) == IF w = "GO" THEN "go" ELSE w

LowerLine(line) == [k \in 1..Len(line) |-> LowerWord(line[k])]

\* text.startswith(("http://", "https://"))
IsUrlLine(line) == line \in UrlLines

\* links.pop(idx): the position removed, counted from 1, 0 for IndexError;
\* a negative idx counts from the end of the list
PopPosition(lst, idx) ==
    IF 0 <= idx /\ idx < Len(lst) THEN idx + 1
    ELSE IF idx < 0 /\ 0 - idx <= Len(lst) THEN Len(lst) + idx + 1
    ELSE 0

\* the list lst without its element at position p
Without(lst, p) == SubSeq(lst, 1, p - 1) \o SubSeq(lst, p + 1, Len(lst))

\* the remove branch, lines 101-108: idx = int(cmd.split(None, 1)[1]) - 1,
\* removed = links.pop(idx); ValueError and IndexError give the same message
Remove(cmd) ==
    LET p == IF Len(cmd) = 2 /\ IsIntText(cmd[2])
             THEN PopPosition(collected, IntOf(cmd[2]) - 1) ELSE 0
    IN IF p # 0
       THEN /\ collected' = Without(collected, p)
            /\ echoed' = <<"Removed", collected[p]>>
       ELSE /\ collected' = collected
            /\ echoed' = <<"Invalid index">>

\* end of input or Ctrl-C at the prompt: when click.prompt lets EOFError or
\* KeyboardInterrupt through, the except clause breaks and links is returned;
\* when click.prompt turns it into click.Abort, the exception leaves main
ReadEof(caught) ==
    /\ cpc = "prompt"
    /\ entered' = <<"<EOF>">>
    /\ previous' = collected
    /\ echoed' = <<>>
    /\ cpc' = IF caught THEN "returned" ELSE "aborted"
    /\ UNCHANGED <<collected, routerVars, scrapeVars, runVars, signVars, privacyVars,
                   synthVars, outputVars>>

\* one pass of the while loop on a line that was read, lines 92-125
ReadLine(line) ==
    /\ cpc = "prompt"
    /\ line \in Lines
    /\ IsUrlLine(line) => Len(collected) < MaxLinks
    /\ entered' = line
    /\ previous' = collected
    /\ LET cmd == LowerLine(line)
       IN IF line = <<>>
          THEN /\ echoed' = <<>>
               /\ UNCHANGED <<collected, cpc>>
          ELSE IF cmd \in {<<"quit">>, <<"exit">>, <<"q">>}
          THEN /\ echoed' = <<>>
               /\ cpc' = "returned"
               /\ UNCHANGED collected
          ELSE IF cmd = <<"list">>
          THEN /\ echoed' = IF collected = <<>> THEN <<"(no links yet)">>
                            ELSE <<"listing">> \o collected
               /\ UNCHANGED <<collected, cpc>>
          ELSE IF Len(cmd) >= 2 /\ cmd[1] = "remove"
          THEN /\ Remove(cmd)
               /\ UNCHANGED cpc
          ELSE IF cmd \in {<<"go">>, <<"generate">>}
          THEN IF collected = <<>>
               THEN /\ echoed' = <<"No links to scrape">>
                    /\ UNCHANGED <<collected, cpc>>
               ELSE /\ echoed' = <<>>
                    /\ cpc' = "returned"
                    /\ UNCHANGED collected
          ELSE IF IsUrlLine(line)
          THEN /\ collected' = Append(collected, line[1])
               /\ echoed' = <<"Added">>
               /\ UNCHANGED cpc
          ELSE /\ echoed' = <<"Unknown command">>
               /\ UNCHANGED <<collected, cpc>>
    /\ UNCHANGED <<routerVars, scrapeVars, runVars, signVars, privacyVars,
                   synthVars, outputVars>>

\* main, lines 216-223: an empty list ends the program, any other list is
\* handed to _scrape_and_output
MainAfterCollect ==
    /\ cpc = "returned"
    /\ cpc' = IF collected = <<>> THEN "bye" ELSE "scraping"
    /\ UNCHANGED <<collected, entered, previous, echoed, routerVars, scrapeVars,
                   runVars, signVars, privacyVars, synthVars, outputVars>>

\* main was started without links: all_links = _interactive_collect()
InitCollect ==
    /\ CoreIdle /\ SynthIdle /\ OutputIdle
    /\ collected = <<>>
    /\ cpc = "prompt"
    /\ entered = <<>>
    /\ previous = <<>>
    /\ echoed = <<>>

NextCollect ==
    \/ \E caught \in BOOLEAN : ReadEof(caught)
    \/ \E line \in Lines : ReadLine(line)
    \/ MainAfterCollect

SpecCollect == InitCollect /\ [][NextCollect]_vars

-----------------------------------------------------------------------------
(* Claims about the router *)

\* C4: once every scraper of get_all_scrapers is registered in order, with
\* GenericScraper last, resolve(url) returns a scraper (never None, and it
\* does not raise) for every input string.
C4_ResolveReturnsScraper ==
    (resolved # "-" /\ scrapers = ScraperModules) => resolved \in ScraperNames

\* The URL's host+path as the claim reads it: the text after a leading
\* "scheme://" (the whole input when it starts with no scheme), up to the
\* query or fragment.
C5_HostPath(u) ==
    LET c     == Find(u, ":")
        hasSc == /\ c > 1
                 /\ IsScheme(Upto(u, c - 1))
                 /\ SubSeq(u, c, c + 2) = SchemeSep
        body  == IF hasSc THEN From(u, c + 3) ELSE u
        stop  == MinPos({Find(body, "?"), Find(body, "#")})
    IN IF stop = 0 THEN body ELSE Upto(body, stop - 1)

\* the positions of the platform-specific scrapers of a list whose patterns
\* match the URL's host+path
C5_Matching(list, u) ==
    {i \in 1..Len(list) :
        /\ list[i] # "GenericScraper"
        /\ \E p \in UrlPatterns(list[i]) : FnMatch(C5_HostPath(u), p)}

C5_MatchingParsed(list, u) ==
    LET parsed == UrlParse(IF HasSub(u, SchemeSep) THEN u ELSE HttpsPrefix \o u)
    IN {i \in 1..Len(list) :
           /\ list[i] # "GenericScraper"
           /\ \E p \in UrlPatterns(list[i]) : FnMatch(parsed.netloc \o parsed.path, p)}

-----------------------------------------------------------------------------
(* Claims about one scrape *)

\* the positions in reqs of the requests to an endpoint
ReqsTo(ep) == {i \in 1..Len(reqs) : reqs[i].ep[1] = ep}

\* ScrapeOutcomes agrees with the step machines: every way a scrape ends is
\* one ScrapeOutcomes names
ScrapeOutcomesCoverScrape ==
    spc = "done" => srec.kind \in ScrapeOutcomes(scraper, surl)

\* C1: for every registered scraper, when an upstream request answers with
\* HTTP 4xx/5xx, times out or returns a malformed payload, scrape does not
\* raise: it returns a ScrapedData whose platform is set.
C1_NoRaiseOnUpstreamFailure ==
    (spc = "done" /\ \E i \in 1..Len(reqs) : reqs[i].out \in UpstreamFailures) =>
        (srec.kind = "record" /\ srec.platform # <<>>)

\* C8: every upstream call made by a scraper carries the configured timeout
\* (so that no scrape can wait without bound on one unresponsive source).
C8_EveryCallCarriesTimeout ==
    \A i \in 1..Len(reqs) : reqs[i].timeout

\* C10: in BilibiliScraper.scrape, whenever the WBI-signed video search does
\* not produce a code-0 response (the key request fails, a key is empty,
\* signing or the request raises, or the response code is non-zero), the
\* unsigned arc/search endpoint is requested after it; when the signed search
\* succeeds the unsigned endpoint is not requested.
C10_FallbackIffSignedFailed ==
    (scraper = "BilibiliScraper" /\ spc \in {"return", "done"}
        /\ ReqsTo("x/web-interface/nav") # {}) =>
        LET signed   == ReqsTo("x/space/wbi/arc/search")
            unsigned == ReqsTo("x/space/arc/search")
        IN /\ (\A i \in signed : reqs[i].out \notin VideoPayloads \cup {"badshape"}) =>
                 \E j \in unsigned :
                    \A i \in signed \cup ReqsTo("x/web-interface/nav") : i < j
           /\ (\E i \in signed : reqs[i].out \in VideoPayloads) => unsigned = {}

\* C10's case: the signed search answered with a non-zero code and the
\* unsigned endpoint was requested after it
C10_Witness ==
    /\ scraper = "BilibiliScraper" /\ spc = "done"
    /\ \E i \in ReqsTo("x/space/wbi/arc/search") :
          /\ reqs[i].out = "nonzero"
          /\ \E j \in ReqsTo("x/space/arc/search") : i < j

-----------------------------------------------------------------------------
(* Claims about the orchestrator *)

\* the position of task i in a sequence of task numbers, 0 when absent
PosIn(seq, i) == MinPos({p \in 1..Len(seq) : seq[p] = i})

\* C2: for any batch in which some scrapes raise, _run itself does not raise
\* and returns exactly one record for each scrape that did not raise.
C2_RaisingScrapeIsIsolated ==
    (\E i \in 1..Len(tasks) : tasks[i].st = "raise") =>
        /\ rpc # "raised"
        /\ rpc = "done" =>
              \A i \in 1..Len(tasks) :
                 Cardinality({p \in 1..Len(results) : results[p] = i})
                    = IF tasks[i].st = "record" THEN 1 ELSE 0

\* C2's case: three links, one scrape raised, and the two other records
\* are returned
C2_Witness ==
    /\ rpc = "done"
    /\ Len(links) = 3
    /\ Cardinality({i \in 1..Len(tasks) : tasks[i].st = "raise"}) = 1
    /\ Len(results) = 2

\* C3: for every batch, the number of records returned by _run equals the
\* number of input URLs.
C3_OneRecordPerUrl ==
    rpc = "done" => Len(results) = Len(links)

\* C6: the records returned by _run are in completion order: if the scrape
\* of a completed before the scrape of b, the record of a precedes the
\* record of b, whatever their positions in the input list.
C6_CompletionOrder ==
    \A a, b \in 1..Len(tasks) :
        (/\ PosIn(results, a) > 0
         /\ PosIn(results, b) > 0
         /\ PosIn(queue, a) < PosIn(queue, b)) =>
            PosIn(results, a) < PosIn(results, b)

\* C6's case: the scrape of the second link completed before the scrape of
\* the first and its record comes first in the result
C6_Witness ==
    /\ rpc = "done"
    /\ Len(results) >= 2
    /\ results[1] = 2
    /\ results[2] = 1

\* C7: _run starts the scrape of every input URL before it waits for any of
\* them; a scrape that is slow or raises neither cancels another scrape nor
\* keeps an already completed scrape's record from being collected: the loop
\* can take every completed scrape while others are still running, and every
\* scrape that completes without raising has its record in the result.
C7_AllStartedNoneBlocked ==
    /\ rpc \in {"collect", "done"} =>
          /\ Len(tasks) = Len(links)
          /\ \A i \in 1..Len(tasks) : tasks[i].st # "created"
    /\ (rpc = "collect" /\ \E i \in 1..Len(tasks) :
            tasks[i].st \in {"record", "raise"} /\ PosIn(queue, i) > taken) =>
          ENABLED Collect
    /\ rpc = "done" =>
          \A i \in 1..Len(tasks) : tasks[i].st = "record" => PosIn(results, i) > 0

\* C7's case: the record of a completed scrape is in results while another
\* scrape is still running and a third has raised
C7_Witness ==
    /\ rpc = "collect"
    /\ \E i, j, k \in 1..Len(tasks) :
          /\ tasks[i].st = "record" /\ PosIn(results, i) > 0
          /\ tasks[j].st = "running"
          /\ tasks[k].st = "raise" /\ PosIn(queue, k) <= taken

-----------------------------------------------------------------------------
(* Claims about WBI signing *)

\* the value of key k in dict d
ValueOf(d, k) == d[CHOOSE i \in 1..Len(d) : d[i][1] = k][2]

\* the keys of the caller's parameters other than the wts _sign_wbi sets
InputKeys == DictKeys(calls[1].params) \ {"wts"}

BothSigned == Len(calls) = 2 /\ calls[1].out.st = "ok" /\ calls[2].out.st = "ok"

\* C9 as stated: for fixed parameters, key pair and timestamp the signature
\* is always the same, and changing the value of any input parameter
\* produces a different w_rid.
C9_AnyChangeChangesSignature ==
    BothSigned =>
        (calls[1].out.w_rid = calls[2].out.w_rid)
            <=> (\A k \in InputKeys :
                    ValueOf(calls[1].params, k) = ValueOf(calls[2].params, k))

\* C9, amended: for a fixed key pair and timestamp, two calls give the same
\* w_rid exactly when every input parameter other than wts has the same
\* text once str() is applied and the characters !'()* are removed; the
\* insertion order of the parameters and a wts of the caller's do not matter.
C9_StrippedTextDecidesSignature ==
    BothSigned =>
        (calls[1].out.w_rid = calls[2].out.w_rid)
            <=> (\A k \in InputKeys :
                    Strip(Str(ValueOf(calls[1].params, k)))
                        = Strip(Str(ValueOf(calls[2].params, k))))

\* C9's case: two calls whose ps differ in a character that is kept, given
\* in different insertion orders, with different signatures
C9_Witness ==
    /\ BothSigned
    /\ calls[1].params[1][1] # calls[2].params[1][1]
    /\ ValueOf(calls[1].params, "ps") = StrVal(<<"a">>)
    /\ ValueOf(calls[2].params, "ps") = StrVal(<<"a", "&", "b">>)
    /\ calls[1].out.w_rid # calls[2].out.w_rid

-----------------------------------------------------------------------------
(* Claims about GitLab user discovery *)

\* the requests of strategy 1, 2 and 3
Probes == ReqsTo("projects/")

Searches == ReqsTo("projects?search")

TopScans == ReqsTo("projects?order_by=star_count")

\* discovery has returned to scrape
Discovered == scraper = "GitLabScraper" /\ loc.keys # "-"

\* C11: in GitLab user discovery, when a probe of strategy 1 yields a user
\* namespace matching the username, neither the keyword search nor the
\* top-starred scan is requested; when strategies 1 and 2 both miss or fail,
\* the top-starred scan is requested and its match, if any, is returned.
C11_ShortCircuitAndTopScan ==
    scraper = "GitLabScraper" =>
        /\ (\E i \in Probes : reqs[i].out \in Matches) =>
               (Searches = {} /\ TopScans = {})
        /\ (/\ Discovered
            /\ \A i \in Probes \cup Searches : reqs[i].out \notin Matches) =>
               /\ TopScans # {}
               /\ \A i \in TopScans : reqs[i].out \in Matches => loc.keys = reqs[i].out

\* C12: when none of the three GitLab discovery strategies finds a matching
\* user namespace, including when every request fails, scrape returns a
\* record with platform GitLab and no items instead of raising.
C12_NoMatchGivesBareRecord ==
    (/\ Discovered
     /\ \A i \in Probes \cup Searches \cup TopScans : reqs[i].out \notin Matches) =>
        /\ spc = "done"
        /\ srec.kind = "record"
        /\ srec.platform = <<"GitLab">>
        /\ srec.items = <<>>

\* all seven discovery requests were made and every one of them failed
C12_Witness ==
    /\ Discovered /\ spc = "done"
    /\ Cardinality(Probes) = 5 /\ Searches # {} /\ TopScans # {}
    /\ \A i \in 1..Len(reqs) : reqs[i].out \in UpstreamFailures
    /\ srec = GitLabBare

-----------------------------------------------------------------------------
(* Claims about the multi-endpoint scrapers *)

GatherScrapers == {"GitHubScraper", "StackOverflowScraper", "RedditScraper"}

\* the branches whose request has ended, and those that ended well
EndedBranches == {reqs[i].ep[1] : i \in 1..Len(reqs)}

OkBranches == {reqs[i].ep[1] : i \in {j \in 1..Len(reqs) : reqs[j].out = "ok"}}

\* C13: in GitHub, Stack Overflow and Reddit scrapes the three sub-fetches
\* run concurrently and independently: whatever subset of them fails, the
\* scrape returns a record holding exactly the items built from the
\* sub-fetches that succeeded, and no failure cancels or empties another
\* branch (each branch is requested once, and while the gather is open every
\* branch that has not ended can end next, and end well).
C13_BranchesIndependent ==
    (scraper \in GatherScrapers /\ loc.id # NoneVal) =>
        /\ spc = "gather" =>
               \A k \in 1..3 :
                   Branches(scraper)[k] \notin EndedBranches =>
                       ENABLED SubFetch(Branches(scraper)[k], "ok")
        /\ spc = "done" =>
               /\ srec.kind = "record"
               /\ \A k \in 1..3 : Cardinality(ReqsTo(Branches(scraper)[k])) = 1
               /\ srec.items = GatherItems(scraper, OkBranches, 1)

\* the first sub-fetch to end failed, the two that ended after it succeeded,
\* and the record holds the items of those two
C13_Witness ==
    /\ scraper = "GitHubScraper" /\ spc = "done"
    /\ Len(reqs) = 3
    /\ reqs[1].ep[1] = "repos" /\ reqs[1].out \in UpstreamFailures
    /\ reqs[2].out = "ok" /\ reqs[3].out = "ok"
    /\ srec.items = <<Item("profile", "name"), Item("organization", "login")>>

-----------------------------------------------------------------------------
(* Claims about the catch-all scraper *)

\* the fetch was refused or failed, or nothing could be extracted
GenericFailed ==
    /\ scraper = "GenericScraper" /\ spc = "done"
    /\ reqs = <<>> \/ reqs[Len(reqs)].out \in UpstreamFailures

Hostname(u) ==
    LET netloc == UrlParse(WithScheme(u)).netloc
        at     == Find(netloc, "@")
        host   == IF at = 0 THEN netloc ELSE From(netloc, at + 1)
        colon  == Find(host, ":")
    IN IF colon = 0 THEN host ELSE Upto(host, colon - 1)

\* s with a leading "www." removed
BareHost(h) == IF Len(h) >= 2 /\ Upto(h, 2) = <<"www", ".">> THEN From(h, 3) ELSE h

\* C15: for every URL handled by the catch-all scraper, with or without a
\* scheme and whether or not the fetch succeeds, the record's source equals
\* the URL's host with a leading "www." removed.
C15_SourceIsBareHost ==
    (scraper = "GenericScraper" /\ spc = "done") =>
        (srec.kind = "record" /\ srec.platform = BareHost(Hostname(surl)))

-----------------------------------------------------------------------------
(* Claims about the redaction filter *)

\* C17: the redaction filter is idempotent: for every text t,
\* strip_sensitive(strip_sensitive(t)) = strip_sensitive(t).
C17_StripIdempotent ==
    ppc = "twice" => twice = once

\* an address followed by the middle of another one: the address is
\* redacted, the rest stays, and the second call changes nothing
C17_Witness ==
    /\ ppc = "twice"
    /\ ptext = <<"a", "@", "b", ".", "a", "@", "b", ".">>
    /\ once = Redacted \o <<"@", "b", ".">>
    /\ twice = once

-----------------------------------------------------------------------------
(* Claims about a batch of one link *)

\* _run was given the one link github.com/octocat and has returned
OctocatDone ==
    /\ rpc = "done"
    /\ links = <<<<"github", ".", "com", "/", "octocat">>>>

\* the record has a fact of category "profile"
HasProfileFact(r) == \E k \in 1..Len(r.items) : r.items[k].category = "profile"

\* C16 as stated: running a batch on the single scheme-less input
\* github.com/octocat returns exactly 1 record, with source "GitHub", handle
\* "octocat" and at least one fact of category "profile".
C16_OctocatScenario ==
    OctocatDone =>
        /\ Len(results) = 1
        /\ srec.platform = <<"GitHub">>
        /\ srec.username = <<"octocat">>
        /\ HasProfileFact(srec)

\* C16, amended: the batch returns exactly 1 record, with source "GitHub" and
\* handle "octocat"; the record has a fact of category "profile" exactly when
\* the request for the user's profile succeeded.
C16_OctocatWhenProfileFetched ==
    OctocatDone =>
        /\ Len(results) = 1
        /\ tasks[results[1]].st = "record"
        /\ srec.kind = "record"
        /\ srec.platform = <<"GitHub">>
        /\ srec.username = <<"octocat">>
        /\ HasProfileFact(srec) <=> (\E i \in ReqsTo("user") : reqs[i].out = "ok")

\* the three GitHub requests succeeded and the batch returned the record
C16_Witness ==
    /\ OctocatDone
    /\ Len(results) = 1
    /\ \A i \in 1..Len(reqs) : reqs[i].out = "ok"
    /\ HasProfileFact(srec)

\* one of the four patterns matches somewhere in t
Sensitive(t) ==
    \E p \in 1..Len(t), k \in 1..Len(Patterns) : MatchEnd(Patterns[k], t, p) # 0

\* C18: every freeform text that leaves the core in a record returned by
\* _run has passed through the redaction filter: no returned summary
\* contains a substring matching the email, phone, ID-card or IP-address
\* pattern.
C18_ReturnedTextRedacted ==
    (rpc = "done" /\ Len(results) = 1) => ~Sensitive(srec.bio)

-----------------------------------------------------------------------------
(* Claims about records that explain what went wrong *)

\* the scraper's own extraction helper finds no identifier in the url
NoIdentifier(c, u) ==
    CASE c \in {"GitHubScraper", "GitLabScraper"} -> ExtractUsername(u) = NoneVal
      [] c = "StackOverflowScraper" -> SoExtractUserId(u) = NoneVal
      [] c = "RedditScraper" -> RedditExtractUsername(u) = NoneVal
      [] c = "DoubanScraper" -> DoubanExtractUserId(u) = NoneVal
      [] c = "GoogleScholarScraper" -> ExtractAuthorId(u) = NoneVal
      [] c = "BilibiliScraper" -> ExtractMid(u) = NoneVal
      [] c = "ZhihuScraper" -> ExtractUrlToken(u) = NoneVal
      [] c = "WeiboScraper" -> ExtractUid(u) = NoneVal
      [] c = "XiaohongshuScraper" -> XhsExtractUserId(u) = NoneVal
      [] OTHER -> FALSE

\* the keys under which the scrapers note an error in raw
ErrorKeys == {"error", "mobile_api_error", "ajax_api_error"}

\* C19: for every scraper, when no identifier (username, user id) can be
\* derived from the URL it was routed, scrape does not raise: it returns a
\* record carrying only the source and an error note in the debug bag (raw).
C19_NoIdentifierGivesErrorNote ==
    (spc = "done" /\ NoIdentifier(scraper, surl)) =>
        /\ srec.kind = "record"
        /\ srec.platform = PlatformName(scraper)
        /\ srec.username = NoneVal /\ srec.bio = NoneVal /\ srec.items = <<>>
        /\ srec.raw = {"error"}

\* C20: whenever an upstream request of a scrape fails and the scraper
\* degrades to a record with empty or partial items, that record's debug bag
\* (raw) contains an entry explaining the failure.
C20_DegradedRecordExplains ==
    (/\ spc = "done"
     /\ srec.kind = "record"
     /\ \E i \in 1..Len(reqs) : reqs[i].out \in UpstreamFailures) =>
        srec.raw \cap ErrorKeys # {}

-----------------------------------------------------------------------------
(* Claims about the facts and the source of a returned record *)

\* C21: every fact of every record a scraper returns has a non-empty
\* category and a non-empty key, whatever the upstream payload contains.
C21_ItemsHaveCategoryAndKey ==
    (spc = "done" /\ srec.kind = "record") =>
        \A k \in 1..Len(srec.items) :
            srec.items[k].category # "" /\ srec.items[k].key # ""

\* C22: for every scraper and every input URL the source_url of the returned
\* record is the input URL, unchanged.
C22_SourceUrlIsInput ==
    (spc = "done" /\ srec.kind = "record") => srec.source_url = surl

-----------------------------------------------------------------------------
(* Claims about the order and the number of upstream requests *)

\* the endpoints of Bilibili's data requests
BiliDataEndpoints ==
    {"x/web-interface/card", "x/relation/stat", "x/web-interface/nav",
     "x/space/wbi/arc/search", "x/space/arc/search"}

\* C25: in every BilibiliScraper.scrape run with an extractable user id the
\* GET of the site root comes first, the GET of the fingerprint endpoint
\* second, both before every data request (card, relation stat, video
\* search), and the navigation request for the signing keys comes before the
\* signed video search.
C25_WarmUpComesFirst ==
    (scraper = "BilibiliScraper" /\ ExtractMid(surl) # NoneVal) =>
        /\ Len(reqs) >= 1 => reqs[1].ep = <<"www.bilibili.com/">>
        /\ Len(reqs) >= 2 => reqs[2].ep = <<"x/frontend/finger/spi">>
        /\ \A j \in 1..Len(reqs) :
              reqs[j].ep[1] \in BiliDataEndpoints => j > 2
        /\ \A j \in ReqsTo("x/space/wbi/arc/search") :
              \E i \in ReqsTo("x/web-interface/nav") : i < j

\* C25's case: a run that reached the signed video search and returned
C25_Witness ==
    /\ scraper = "BilibiliScraper" /\ spc = "done" /\ srec.kind = "record"
    /\ ReqsTo("x/web-interface/card") # {}
    /\ ReqsTo("x/space/wbi/arc/search") # {}

\* within one invocation no two upstream requests have the same endpoint and
\* the same parameters
NoRequestRepeated ==
    \A i, j \in 1..Len(reqs) : i # j => reqs[i].ep # reqs[j].ep

\* C26: within one scraper invocation no upstream request is repeated (the
\* same endpoint with the same parameters is requested at most once), and
\* every invocation ends by returning a record.
C26_NoRepeatAndReturnsRecord ==
    /\ NoRequestRepeated
    /\ spc = "done" => srec.kind = "record"

-----------------------------------------------------------------------------
(* Claims about what a GitLab or Weibo record carries *)

\* C27: whenever GitLab discovery finds a project whose namespace is a user
\* namespace with path equal to the username, scrape returns a record with
\* that namespace's profile facts, also when no numeric user id can be
\* derived from the namespace's avatar URL.
C27_FoundNamespaceGivesProfile ==
    (Discovered /\ spc = "done" /\ loc.keys \in Returns) =>
        srec.kind = "record" /\ HasProfileFact(srec)

\* no fact (category and key) appears twice in the items of record r
NoFactTwice(r) ==
    \A i, j \in 1..Len(r.items) : i # j => r.items[i] # r.items[j]

\* C28: in WeiboScraper.scrape the ajax profile endpoint is requested only
\* if the mobile API failed or returned no data, so the items of the returned
\* record come from at most one of the two APIs: no profile or stats fact
\* appears twice.
C28_AtMostOneApiGivesItems ==
    (scraper = "WeiboScraper" /\ spc = "done" /\ srec.kind = "record") =>
        /\ ReqsTo("weibo.com/ajax/profile/info") # {} =>
              \A i \in ReqsTo("m.weibo.cn/api/container/getIndex") :
                  reqs[i].out \in {"notok"} \cup UpstreamFailures
        /\ NoFactTwice(srec)

-----------------------------------------------------------------------------
(* Claims about whoareu's synthesize and write_files *)

\* the text the caller gets for an answer wrapped in a fenced block is the
\* block's body
FencesStripped(answer, text) ==
    \A lang \in {<<>>, <<"markdown">>, <<"md">>}, body \in {<<"#", "A">>, <<"#", "B">>} :
        answer = Fenced(lang, body) => text = body

\* C24: synthesize(spec) issues exactly two LLM completion requests, one after
\* the other: first for IDENTITY.md, then for SOUL.md with the identity text
\* in its prompt; it returns both texts with wrapping code fences stripped.
C24_TwoRequestsInOrder ==
    (ypc = "done" /\ generated.kind = "files") =>
        /\ Len(llm_calls) = 2
        /\ llm_calls[1].file = "IDENTITY.md"
        /\ llm_calls[2].file = "SOUL.md"
        /\ llm_calls[2].quoted = <<generated.fields["identity_md"]>>
        /\ FencesStripped(llm_calls[1].answer, generated.fields["identity_md"])
        /\ FencesStripped(llm_calls[2].answer, generated.fields["soul_md"])

\* C23: write_files(files, output_dir) creates output_dir (with parents) when
\* it does not exist, writes IDENTITY.md and SOUL.md with the contents of
\* files, and returns exactly those two paths without raising.
C23_WritesTwoFilesAndReturns ==
    wpc = "done" =>
        /\ \A k \in 1..Len(output_dir) : disk[SubSeq(output_dir, 1, k)] = Dir
        /\ disk[Append(output_dir, "IDENTITY.md")] = files.fields["identity_md"]
        /\ disk[Append(output_dir, "SOUL.md")] = files.fields["soul_md"]
        /\ wrote = [kind |-> "paths",
                    paths |-> <<Append(output_dir, "IDENTITY.md"),
                                Append(output_dir, "SOUL.md")>>]

-----------------------------------------------------------------------------
(* Claims about the interactive link collector *)

\* the last line handled was 'remove <n>' with the one word n
RemoveEntered == Len(entered) = 2 /\ LowerWord(entered[1]) = "remove"

\* C29: after any sequence of commands, 'remove <n>' removes exactly the n-th
\* link of the 1-based listing when 1 <= n <= number of links, and for every
\* other n (0, negative, too large, not a number) leaves the link list
\* unchanged and reports an invalid index.
C29_RemoveByListingNumber ==
    RemoveEntered =>
        IF IsIntText(entered[2]) /\ 1 <= IntOf(entered[2])
                                 /\ IntOf(entered[2]) <= Len(previous)
        THEN collected = Without(previous, IntOf(entered[2]))
        ELSE collected = previous /\ echoed = <<"Invalid index">>

\* C30: in interactive mode scraping starts only after a 'go' or 'generate'
\* command entered while at least one link is collected: 'go' with no links
\* keeps the session open, and ending the session with quit/exit/q or
\* end-of-input never leads to scraping the collected links.
C30_ScrapingOnlyAfterGo ==
    /\ cpc = "scraping" =>
          LowerLine(entered) \in {<<"go">>, <<"generate">>} /\ collected # <<>>
    /\ (LowerLine(entered) \in {<<"go">>, <<"generate">>} /\ previous = <<>>) =>
          cpc = "prompt"

=============================================================================
